---- MODULE Spec2Model ----
(***************************************************************************)
(* VoiceActivityBot: the subscription index and the debounce engine of     *)
(* bot/bot.go (second variant, lines 690-1311), as a state machine.        *)
(*                                                                         *)
(* Goroutines: discordgo runs every handler call in its own goroutine, so  *)
(* the handlers of voice events and of commands are run by a small pool of *)
(* workers that interleave; every time.AfterFunc callback is a goroutine   *)
(* of its own, identified by its timer.  Every critical section is two     *)
(* steps: the acquisition together with the body, and the release.         *)
(* Time is counted in ticks of one second; a timer holds the ticks that    *)
(* remain until it expires.                                                *)
(***************************************************************************)
EXTENDS Integers, Sequences, FiniteSets, TLC

\* ------------------------------------------------------------ identifiers
Users == {"u1"}
VoiceChannels == {"A", "B"}
TextChannels == {"t1", "t2"}
Workers == {1, 2}

\* A text channel and a voice channel belong to one guild (i.GuildID).
GuildOf(c) == "g1"

\* vsu.ChannelID == "" and vsu.BeforeUpdate == nil
NoChannel == ""
NoState == "nil"

\* debounceInterval := 3 * time.Second
DefaultDebounceInterval == 3

\* ----------------------------------------------------------------- bounds
\* calls of debounceNotification (one timer each) in one run
MaxCalls == 2
\* commands handled in one run
MaxCmds == 4

\* ------------------------------------------------------------------ state
VARIABLES
    subscriptions,  \* b.subscriptions: voiceChannelID -> sequence of subscription
    capacity,       \* cap(b.subscriptions[voiceChannelID]): the size of the array
                    \* that backs the list
    mu,             \* b.mu (sync.RWMutex): [writer, readers]
    debouncers,     \* b.debouncers: key -> debouncer (a pointer into debs)
    debounceMu,     \* b.debounceMu: its holder
    debs,           \* the debouncer objects allocated so far
    timers,         \* the timers created so far, each with its callback's position
    wk,             \* the workers: position and locals of the handler each runs
    menus,          \* the unsubscribe select menus shown and not yet answered
    last,           \* the last call of addSubscription or removeSubscription that
                    \* has run its body, with the index before it and the call before it
    nCmds,          \* commands handled so far
    environ,        \* the value of DEBOUNCE_INTERVAL in the environment
    boot,           \* the start of the bot: its position, b.debounceInterval and
                    \* what the start has loaded
    file,           \* the file at p.filePath
    pers,           \* the Persistence object: p.mu and the call of Save or Load
                    \* that is running
    admin           \* the admin channels and the request to list that is handled

sysVars == <<environ, boot, file, pers, admin>>
vars == <<subscriptions, capacity, mu, debouncers, debounceMu, debs, timers, wk, menus, last, nCmds,
          sysVars>>

idxVars == <<subscriptions, capacity, mu, menus, last>>
debVars == <<debouncers, debounceMu, debs, timers>>

\* A key made of the user alone: the channels of one user share a debouncer
KeyByUser(userID, channelID) == <<userID, "">>

\* key := fmt.Sprintf("%s:%s", userID, channelID); ids hold no colon, so the
\* pair is the key.
Key(userID, channelID) == <<userID, channelID>>
Keys == Users \X VoiceChannels

\* ------------------------------------------------------------------ locks
Free == [kind |-> "free", id |-> 0]
Worker(w) == [kind |-> "worker", id |-> w]
Callback(t) == [kind |-> "timer", id |-> t]

\* sync.RWMutex: Lock needs no writer and no reader, RLock needs no writer.
CanLock(m) == m.writer = Free /\ m.readers = {}
CanRLock(m) == m.writer = Free
Lock(m, p) == [m EXCEPT !.writer = p]
Unlock(m) == [m EXCEPT !.writer = Free]
RLock(m, p) == [m EXCEPT !.readers = @ \cup {p}]
\* A b.mu.RUnlock() left out: the read lock stays with the goroutine
RUnlockNot(m, p) == m
RUnlock(m, p) == [m EXCEPT !.readers = @ \ {p}]

\* Some goroutine is inside a critical section.
LockHeld ==
    \/ debounceMu # Free
    \/ mu.writer # Free
    \/ mu.readers # {}
    \/ \E d \in 1..Len(debs) : debs[d].mu # Free

\* A goroutine inside a critical section runs to its release before another
\* goroutine is scheduled: a released lock is all that the others can observe
\* of the section, its body touching only what the lock guards.
\* Likewise a handler that has just been called runs, on its own locals, to
\* its first call or to its return.
Scheduled == ~LockHeld /\ \A w \in Workers : wk[w].pc # "event"

\* The zero value of deb.message
NoMessage == [kind |-> "", user |-> "", channel |-> [id |-> "", named |-> FALSE]]

\* ------------------------------------------------------------- the timers
\* The callback of a timer that has expired has been started.
Started(t) == timers[t].pc \notin {"armed", "stopped"}
\* The callback of t has called sendNotifications: an emission.
NoEmit == [chan |-> NoChannel, msg |-> NoMessage]
Emitted(t) == timers[t].emit # NoEmit
\* A timer whose callback is running.
Running(t) == Started(t) /\ timers[t].pc # "done"
TimerIds == 1..Len(timers)
TimersOf(k) == {t \in TimerIds : timers[t].key = k}

\* Reset in the place of Stop: a timer that has expired is armed once more
StopTimerReset(ts, t) ==
    IF t # 0 /\ ts[t].pc = "armed"
    THEN [ts EXCEPT ![t].pc = "stopped", ![t].remaining = 0]
    ELSE IF t # 0 THEN [ts EXCEPT ![t].pc = "armed", ![t].remaining = 0]
    ELSE ts

\* A Stop that stops nothing
StopTimerNot(ts, t) == ts

\* deb.timer.Stop(): prevents an armed timer from firing (it has no expiry any
\* more); a timer that has expired (its callback started) or was stopped is
\* left as it is.
StopTimer(ts, t) ==
    IF t # 0 /\ ts[t].pc = "armed"
    THEN [ts EXCEPT ![t].pc = "stopped", ![t].remaining = 0]
    ELSE ts

\* A timer restarted with the time its debouncer's timer had left
AfterFuncRemaining(d, k, interval) ==
    [deb |-> d, key |-> k, pc |-> "armed",
     remaining |-> IF debs[d].timer # 0 THEN timers[debs[d].timer].remaining ELSE interval,
     initial |-> IF debs[d].timer # 0 THEN timers[debs[d].timer].remaining ELSE interval,
     found |-> "fresh", msg |-> NoMessage,
     finalMessage |-> NoMessage, emit |-> NoEmit, subs |-> <<>>, idx |-> 0,
     shared |-> FALSE, listed |-> <<>>, sent |-> <<>>, emits |-> 0, atEvent |-> <<>>]

\* time.AfterFunc(b.debounceInterval, func() {...}): a new armed timer whose
\* callback closes over deb, channelID and key.
\* (Not read by the program: initial, the duration the timer was given; found
\* and msg, how the call of debounceNotification that created the timer found
\* the key, and its message; atEvent, the list of the voice channel when that
\* call set the timer; emit, the arguments of the callback's call of
\* sendNotifications.)
AfterFunc(d, k, interval) ==
    [deb |-> d, key |-> k, pc |-> "armed", remaining |-> interval,
     initial |-> interval, found |-> "fresh", msg |-> NoMessage,
     finalMessage |-> NoMessage, emit |-> NoEmit, subs |-> <<>>, idx |-> 0,
     shared |-> FALSE, listed |-> <<>>, sent |-> <<>>, emits |-> 0, atEvent |-> <<>>]

\* b.debounceInterval, set by NewBot
debounceInterval == DefaultDebounceInterval

\* ---------------------------------------------------------- voice events
\* username := member.User.Username; if member.Nick != "" { username = member.Nick }
DisplayName(username, nick) == IF nick # "" THEN nick ELSE username

\* channelName := channelID; if err == nil { channelName = channel.Name }
ChannelName(channelID, found) == [id |-> channelID, named |-> found]

\* fmt.Sprintf("<glyph> **%s** joined **%s**", username, channelName), and "left"
Joined(username, channelName) == [kind |-> "joined", user |-> username, channel |-> channelName]
Left(username, channelName) == [kind |-> "left", user |-> username, channel |-> channelName]

\* One call debounceNotification(s, vsu.UserID, channelID, message)
Call(userID, channelID, message) == [user |-> userID, chan |-> channelID, msg |-> message]

\* The calls of debounceNotification that voiceStateUpdate makes for an event,
\* in order.  ev.member: the member is in the event or GuildMember finds it.
Notifications(ev) ==
    LET username == DisplayName(ev.user, ev.nick)
        joined(c) == Call(ev.user, c, Joined(username, ChannelName(c, ev.named)))
        left(c) == Call(ev.user, c, Left(username, ChannelName(c, ev.named)))
    IN  IF ~ev.member THEN <<>>
        ELSE IF ev.bot THEN <<>>
        ELSE IF ev.before = NoState
            THEN IF ev.current # NoChannel THEN <<joined(ev.current)>> ELSE <<>>
        ELSE IF ev.before # NoChannel /\ ev.current = NoChannel
            THEN <<left(ev.before)>>
        ELSE IF ev.before # ev.current /\ ev.current # NoChannel
            THEN (IF ev.before # NoChannel THEN <<left(ev.before)>> ELSE <<>>)
                 \o <<joined(ev.current)>>
        ELSE <<>>

\* A move handled as a join of the new channel alone
CallsOfMoveAsJoin(ev) ==
    Notifications([ev EXCEPT !.before = IF @ \in VoiceChannels /\ ev.current \in VoiceChannels
                                        THEN NoChannel ELSE @])
\* A previous state without a channel handled as if nothing had changed
CallsOfNilOnly(ev) ==
    Notifications([ev EXCEPT !.current = IF ev.before = NoChannel THEN NoChannel ELSE @,
                             !.before = IF ev.current = NoChannel /\ @ \in VoiceChannels
                                        THEN NoChannel ELSE @])
\* An update inside a channel handled as a join
CallsOfRejoin(ev) ==
    Notifications([ev EXCEPT !.before = IF @ = ev.current THEN NoState ELSE @])
\* No test of member.User.Bot
CallsOfBots(ev) == Notifications([ev EXCEPT !.bot = FALSE])

\* The calls of debounceNotification the handler of the event makes
CallsOf(ev) == Notifications(ev)

\* The events the gateway delivers.
VoiceEvents ==
    [user : Users, nick : {""}, bot : BOOLEAN, member : {TRUE},
     before : VoiceChannels \cup {NoChannel, NoState},
     current : VoiceChannels \cup {NoChannel}, named : {TRUE}]
    \cup
    [user : Users, nick : {""}, bot : {FALSE}, member : {FALSE},
     before : VoiceChannels \cup {NoChannel, NoState},
     current : VoiceChannels \cup {NoChannel}, named : {TRUE}]

\* No event: the handler of a command, or no handler
NoEvent ==
    [user |-> "", nick |-> "", bot |-> FALSE, member |-> FALSE,
     before |-> NoState, current |-> NoChannel, named |-> FALSE]

IdleWorker ==
    [pc |-> "idle", cmd |-> "", ev |-> NoEvent, todo |-> <<>>, deb |-> 0, vc |-> NoChannel,
     tc |-> NoChannel, matching |-> <<>>, result |-> FALSE, guild |-> ""]

\* The calls of debounceNotification made or still to be made
RECURSIVE SumTodo(_)
SumTodo(ws) ==
    IF ws = {} THEN 0
    ELSE LET w == CHOOSE x \in ws : TRUE IN Len(wk[w].todo) + SumTodo(ws \ {w})
Calls == Len(timers) + SumTodo(Workers)

\* The handler of a new event or command runs in a new goroutine; the workers
\* are interchangeable, and the first idle one stands for it.
Dispatched(w) ==
    /\ wk[w].pc = "idle"
    /\ \A v \in Workers : v < w => wk[v].pc # "idle"

\* The gateway delivers an event: b.voiceStateUpdate(s, vsu) is called
VoiceStateUpdate(w, ev) ==
    /\ Scheduled
    /\ Dispatched(w)
    /\ Calls < MaxCalls
    /\ Calls + Len(CallsOf(ev)) <= MaxCalls
    /\ wk' = [wk EXCEPT ![w] = [IdleWorker EXCEPT !.pc = "event", !.ev = ev]]
    /\ UNCHANGED <<idxVars, debVars, nCmds, sysVars>>

\* voiceStateUpdate up to its first call of debounceNotification, or to its
\* return if it makes none
Classify(w) ==
    /\ wk[w].pc = "event"
    /\ wk' = [wk EXCEPT ![w] =
                IF CallsOf(wk[w].ev) = <<>> THEN IdleWorker
                ELSE [wk[w] EXCEPT !.pc = "debounce", !.todo = CallsOf(wk[w].ev)]]
    /\ UNCHANGED <<idxVars, debVars, nCmds, sysVars>>

\* ---------------------------------------------------- debounceNotification
NewDebouncer(k) == [key |-> k, message |-> NoMessage, timer |-> 0, mu |-> Free]

\* How the key is found when its timer is set: "fresh" is a debouncer without
\* a timer, "reset" one whose timer is armed, each with no other timer of the
\* key armed and no callback of the key running; "raced" is every other case.
ResetKind(d, k) ==
    LET old == debs[d].timer
        others == {t \in TimersOf(k) \ {old} : timers[t].pc = "armed" \/ Running(t)}
    IN  IF others # {} THEN "raced"
        ELSE IF old = 0 THEN "fresh"
        ELSE IF timers[old].pc = "armed" THEN "reset"
        ELSE "raced"

\* b.debounceMu.Lock(); deb, exists := b.debouncers[key]; if !exists {...}
DebounceLookup(w) ==
    /\ Scheduled
    /\ wk[w].pc = "debounce"
    /\ debounceMu = Free
    /\ LET c == Head(wk[w].todo)
           k == Key(c.user, c.chan)
       IN  IF k \in DOMAIN debouncers
           THEN /\ wk' = [wk EXCEPT ![w].pc = "registry", ![w].deb = debouncers[k]]
                /\ UNCHANGED <<debs, debouncers>>
           ELSE /\ debs' = Append(debs, NewDebouncer(k))
                /\ debouncers' = (k :> Len(debs) + 1) @@ debouncers
                /\ wk' = [wk EXCEPT ![w].pc = "registry", ![w].deb = Len(debs) + 1]
    /\ debounceMu' = Worker(w)
    /\ UNCHANGED <<idxVars, timers, nCmds, sysVars>>

\* b.debounceMu.Unlock()
DebounceRelease(w) ==
    /\ wk[w].pc = "registry"
    /\ debounceMu' = Free
    /\ wk' = [wk EXCEPT ![w].pc = "locking"]
    /\ UNCHANGED <<idxVars, debouncers, debs, timers, nCmds, sysVars>>

\* subscriptions := b.subscriptions[voiceChannelID] (nil for a missing key)
ListBySource(voiceChannelID) ==
    IF voiceChannelID \in DOMAIN subscriptions THEN subscriptions[voiceChannelID] ELSE <<>>

\* deb.mu.Lock(); deb.message = message; if deb.timer != nil { deb.timer.Stop() };
\* deb.timer = time.AfterFunc(...)
DebounceSet(w) ==
    /\ Scheduled
    /\ wk[w].pc = "locking"
    /\ LET d == wk[w].deb
           c == Head(wk[w].todo)
           k == Key(c.user, c.chan)
       IN  /\ debs[d].mu = Free
           /\ timers' = Append(StopTimer(timers, debs[d].timer),
                               [AfterFunc(d, k, debounceInterval)
                                   EXCEPT !.found = ResetKind(d, k), !.msg = c.msg,
                                          !.atEvent = ListBySource(c.chan)])
           /\ debs' = [debs EXCEPT ![d].mu = Worker(w), ![d].message = c.msg,
                                   ![d].timer = Len(timers) + 1]
    /\ wk' = [wk EXCEPT ![w].pc = "set"]
    /\ UNCHANGED <<idxVars, debouncers, debounceMu, nCmds, sysVars>>

\* debounceNotification without the deferred deb.mu.Unlock()
DebounceReturnLocked(w) ==
    /\ wk[w].pc = "set"
    /\ wk' = [wk EXCEPT ![w] =
                IF Tail(wk[w].todo) = <<>> THEN IdleWorker
                ELSE [wk[w] EXCEPT !.pc = "debounce", !.deb = 0, !.todo = Tail(wk[w].todo)]]
    /\ UNCHANGED <<idxVars, debouncers, debounceMu, debs, timers, nCmds, sysVars>>

\* defer deb.mu.Unlock(), and the return to voiceStateUpdate
DebounceReturn(w) ==
    /\ wk[w].pc = "set"
    /\ debs' = [debs EXCEPT ![wk[w].deb].mu = Free]
    /\ wk' = [wk EXCEPT ![w] =
                IF Tail(wk[w].todo) = <<>> THEN IdleWorker
                ELSE [wk[w] EXCEPT !.pc = "debounce", !.deb = 0, !.todo = Tail(wk[w].todo)]]
    /\ UNCHANGED <<idxVars, debouncers, debounceMu, timers, nCmds, sysVars>>

\* ------------------------------------------------------ the timer callback
\* One second passes: every armed timer comes a second nearer to its expiry.
Tick ==
    /\ Scheduled
    /\ \E t \in TimerIds : timers[t].pc = "armed" /\ timers[t].remaining > 0
    /\ timers' = [t \in TimerIds |->
                    IF timers[t].pc = "armed" /\ timers[t].remaining > 0
                    THEN [timers[t] EXCEPT !.remaining = @ - 1] ELSE timers[t]]
    /\ UNCHANGED <<idxVars, debouncers, debounceMu, debs, wk, nCmds, sysVars>>

\* The timer expires: the runtime starts its callback in a goroutine.
Fire(t) ==
    /\ Scheduled
    /\ timers[t].pc = "armed"
    /\ timers[t].remaining = 0
    /\ timers' = [timers EXCEPT ![t].pc = "fired"]
    /\ UNCHANGED <<idxVars, debouncers, debounceMu, debs, wk, nCmds, sysVars>>

\* A callback that sends the message of the first event the key ever had
FinalMessageOldest(t) ==
    timers[CHOOSE x \in TimersOf(timers[t].key) :
               \A y \in TimersOf(timers[t].key) : x <= y].msg

\* A callback that keeps the message its timer was created with
FinalMessageCaptured(t) == timers[t].msg

\* finalMessage := deb.message, in the callback of timer t
FinalMessage(t) == debs[timers[t].deb].message

\* deb.mu.Lock(); finalMessage := deb.message
CallbackRead(t) ==
    /\ Scheduled
    /\ timers[t].pc = "fired"
    /\ debs[timers[t].deb].mu = Free
    /\ debs' = [debs EXCEPT ![timers[t].deb].mu = Callback(t)]
    /\ timers' = [timers EXCEPT ![t].pc = "read",
                                ![t].finalMessage = FinalMessage(t)]
    /\ UNCHANGED <<idxVars, debouncers, debounceMu, wk, nCmds, sysVars>>

\* defer deb.mu.Unlock() in the callback: the lock is kept over the emit
CallbackUnlockDeferred(t) ==
    /\ timers[t].pc = "read"
    /\ timers' = [timers EXCEPT ![t].pc = "send"]
    /\ UNCHANGED <<idxVars, debouncers, debounceMu, debs, wk, nCmds, sysVars>>

\* deb.mu.Unlock()
CallbackUnlock(t) ==
    /\ timers[t].pc = "read"
    /\ debs' = [debs EXCEPT ![timers[t].deb].mu = Free]
    /\ timers' = [timers EXCEPT ![t].pc = "send"]
    /\ UNCHANGED <<idxVars, debouncers, debounceMu, wk, nCmds, sysVars>>

\* subscriptions := b.subscriptions[voiceChannelID], in the callback of timer t
Targets(t) == ListBySource(timers[t].key[2])

\* b.sendNotifications(s, channelID, finalMessage): b.mu.RLock() and the read
SendRLock(t) ==
    /\ Scheduled
    /\ timers[t].pc = "send"
    /\ CanRLock(mu)
    /\ mu' = RLock(mu, Callback(t))
    /\ timers' = [timers EXCEPT ![t].pc = "rlocked",
                                ![t].emits = @ + 1,
                                ![t].emit = [chan |-> timers[t].key[2],
                                             msg |-> timers[t].finalMessage],
                                ![t].subs = Targets(t),
                                ![t].listed = Targets(t),
                                ![t].shared = timers[t].key[2] \in DOMAIN subscriptions,
                                ![t].idx = 1]
    /\ UNCHANGED <<subscriptions, capacity, menus, last, debouncers, debounceMu, debs, wk, nCmds, sysVars>>

\* b.mu.RUnlock()
SendRUnlock(t) ==
    /\ timers[t].pc = "rlocked"
    /\ mu' = RUnlock(mu, Callback(t))
    /\ timers' = [timers EXCEPT ![t].pc =
                     IF timers[t].subs = <<>> THEN "cleanup" ELSE "sending",
                                ![t].shared = @ /\ timers[t].subs # <<>>]
    /\ UNCHANGED <<subscriptions, capacity, menus, last, debouncers, debounceMu, debs, wk, nCmds, sysVars>>

\* for _, sub := range subscriptions: whatever the send returned, the loop
\* goes on to the next element, and sendNotifications returns after the last
NextSend(t, ok) ==
    IF timers[t].idx < Len(timers[t].subs)
    THEN [pc |-> "sending", idx |-> timers[t].idx + 1]
    ELSE [pc |-> "cleanup", idx |-> Len(timers[t].subs) + 1]

\* _, err := s.ChannelMessageSend(sub.textChannelId, message); if err != nil
\* { log.Printf(...) }: one round of the loop, the element read from the array
SendOne(t, ok) ==
    /\ Scheduled
    /\ timers[t].pc = "sending"
    /\ timers' = [timers EXCEPT
                     ![t].sent = Append(@, [to |-> timers[t].subs[timers[t].idx].textChannelId,
                                            msg |-> timers[t].finalMessage, ok |-> ok]),
                     ![t].idx = NextSend(t, ok).idx,
                     ![t].pc = NextSend(t, ok).pc,
                     ![t].shared = @ /\ NextSend(t, ok).pc = "sending",
                     ![t].subs = IF NextSend(t, ok).pc = "sending" THEN @ ELSE <<>>]
    /\ UNCHANGED <<idxVars, debouncers, debounceMu, debs, wk, nCmds, sysVars>>

\* No delete
DeleteNone(m, k) == m

\* A delete that empties the map
DeleteAll(m, k) == <<>>

\* delete(b.debouncers, key)
DeleteKey(m, k) == [x \in DOMAIN m \ {k} |-> m[x]]

\* b.debounceMu.Lock(); delete(b.debouncers, key)
CleanupLock(t) ==
    /\ Scheduled
    /\ timers[t].pc = "cleanup"
    /\ debounceMu = Free
    /\ debounceMu' = Callback(t)
    /\ debouncers' = DeleteKey(debouncers, timers[t].key)
    /\ timers' = [timers EXCEPT ![t].pc = "deleting"]
    /\ UNCHANGED <<idxVars, debs, wk, nCmds, sysVars>>

\* b.debounceMu.Unlock(); the callback returns
CleanupUnlock(t) ==
    /\ timers[t].pc = "deleting"
    /\ debounceMu' = Free
    /\ timers' = [timers EXCEPT ![t].pc = "done"]
    /\ UNCHANGED <<idxVars, debouncers, debs, wk, nCmds, sysVars>>

\* ---------------------------------------------------- subscription index
Subscription(vc, tc, g) == [voiceChannelId |-> vc, textChannelId |-> tc, guildId |-> g]

\* A comparison that finds no subscription
SamePairNever(sub, vc, tc) == FALSE

\* sub.textChannelId == textChannelID && sub.voiceChannelId == voiceChannelID
SamePair(sub, vc, tc) == sub.textChannelId = tc /\ sub.voiceChannelId = vc

\* The positions of the subscriptions of the list that the loop's test accepts
Positions(subs, vc, tc) == {i \in 1..Len(subs) : SamePair(subs[i], vc, tc)}
First(S) == CHOOSE i \in S : \A j \in S : i <= j

\* A removal that moves the last element into the place of the removed one
RemoveAtSwap(subs, idx) ==
    [p \in 1..(Len(subs) - 1) |-> IF p = idx THEN subs[Len(subs)] ELSE subs[p]]

\* A removal one place too early
RemoveAtBefore(subs, idx) == SubSeq(subs, 1, idx - 2) \o SubSeq(subs, idx, Len(subs))

\* append(subs[:idx], subs[idx+1:]...)
RemoveAt(subs, idx) == SubSeq(subs, 1, idx - 1) \o SubSeq(subs, idx + 1, Len(subs))

\* addSubscription, lines 1112-1114: a missing key gets the empty list
EnsureKey(index, vc) == IF vc \in DOMAIN index THEN index ELSE (vc :> <<>>) @@ index
\* []subscription{} has no array behind it
EnsureCap(caps, vc) == IF vc \in DOMAIN caps THEN caps ELSE (vc :> 0) @@ caps

\* append to a full slice: the runtime allocates an array of twice the size
\* (of size 1 for an empty one) and copies the list into it
GrowCap(cap) == IF cap = 0 THEN 1 ELSE 2 * cap

\* subscriptions := b.subscriptions[voiceChannelID] copies the slice header:
\* the list that sendNotifications ranges over is the first len elements of
\* the array that backs the list of the index, for as long as the index keeps
\* that array.  Viewing(ts, t, vc): the callback of t ranges over such a list.
Viewing(ts, t, vc) == ts[t].shared /\ ts[t].key[2] = vc

\* append(list, sub) with room in the array writes the element behind the list
AppendInPlace(ts, vc, pos, sub) ==
    [t \in DOMAIN ts |->
        IF Viewing(ts, t, vc) /\ pos <= Len(ts[t].subs)
        THEN [ts[t] EXCEPT !.subs[pos] = sub] ELSE ts[t]]

\* append(subs[:idx], subs[idx+1:]...) moves the elements behind idx one
\* place down in the array; the last place keeps its element
ShiftInPlace(ts, vc, idx, subs) ==
    [t \in DOMAIN ts |->
        IF Viewing(ts, t, vc)
        THEN [ts[t] EXCEPT !.subs =
                 [p \in 1..Len(ts[t].subs) |->
                     IF idx <= p /\ p < Len(subs) THEN subs[p + 1] ELSE ts[t].subs[p]]]
        ELSE ts[t]]

\* The index takes another array for the list, or drops the list
Detach(ts, vc) ==
    [t \in DOMAIN ts |-> IF Viewing(ts, t, vc) THEN [ts[t] EXCEPT !.shared = FALSE] ELSE ts[t]]

\* An add without the search for the pair
AddSubscriptionAlways(index, vc, tc, g) ==
    [index |-> [index EXCEPT ![vc] = Append(@, Subscription(vc, tc, g))], existed |-> FALSE]

\* An add whose search compares the guild too
AddSubscriptionByGuild(index, vc, tc, g) ==
    IF \E i \in Positions(index[vc], vc, tc) : index[vc][i].guildId = g
    THEN [index |-> index, existed |-> TRUE]
    ELSE [index |-> [index EXCEPT ![vc] = Append(@, Subscription(vc, tc, g))],
          existed |-> FALSE]

\* addSubscription, lines 1116-1129, on an index that holds the key:
\* the index it leaves and the value it returns
AddSubscription(index, vc, tc, g) ==
    IF Positions(index[vc], vc, tc) # {}
    THEN [index |-> index, existed |-> TRUE]
    ELSE [index |-> [index EXCEPT ![vc] = Append(@, Subscription(vc, tc, g))],
          existed |-> FALSE]

\* No clean-up
PruneNot(index, vc) == index

\* Clean up empty subscription lists
Prune(index, vc) == IF Len(index[vc]) = 0 THEN DeleteKey(index, vc) ELSE index

\* A removal that reports success and removes nothing
RemoveSubscriptionKeep(index, vc, tc) == [index |-> index, existed |-> TRUE]

\* A removal that drops the whole list of the voice channel
RemoveSubscriptionList(index, vc, tc) ==
    IF vc \notin DOMAIN index THEN [index |-> index, existed |-> FALSE]
    ELSE IF Positions(index[vc], vc, tc) = {} THEN [index |-> index, existed |-> FALSE]
    ELSE [index |-> DeleteKey(index, vc), existed |-> TRUE]

\* removeSubscription: the index it leaves and the value it returns
RemoveSubscription(index, vc, tc) ==
    IF vc \notin DOMAIN index THEN [index |-> index, existed |-> FALSE]
    ELSE IF Positions(index[vc], vc, tc) = {} THEN [index |-> index, existed |-> FALSE]
    ELSE [index |-> Prune([index EXCEPT ![vc] =
                              RemoveAt(@, First(Positions(index[vc], vc, tc)))], vc),
          existed |-> TRUE]

\* A scan that takes every voice channel of the index
MatchesAll(index, tc, g) == DOMAIN index

\* handleUnsubscribeWithoutChannel, lines 1006-1013: the voice channels in
\* which the text channel holds a subscription of the guild
Matches(index, tc, g) ==
    {vc \in DOMAIN index :
        \E i \in 1..Len(index[vc]) :
            index[vc][i].textChannelId = tc /\ index[vc][i].guildId = g}

\* The orders in which a range over the map can append the matches
Orders(S) == {q \in [1..Cardinality(S) -> S] : \A i, j \in 1..Cardinality(S) : q[i] = q[j] => i = j}

NoCall == [op |-> "none", vc |-> NoChannel, tc |-> NoChannel]
Recorded(op, w, existed) ==
    [op |-> op, vc |-> wk[w].vc, tc |-> wk[w].tc, cmd |-> wk[w].cmd, existed |-> existed,
     before |-> subscriptions, prev |-> [op |-> last.op, vc |-> last.vc, tc |-> last.tc]]

\* handleSubscribe with a voice channel (or handleChannelSelect) up to
\* addSubscription's b.mu.Lock() and lines 1112-1114; g is i.GuildID
SubscribeIn(w, vc, tc, g) ==
    /\ Scheduled
    /\ Dispatched(w)
    /\ nCmds < MaxCmds
    /\ CanLock(mu)
    /\ mu' = Lock(mu, Worker(w))
    /\ subscriptions' = EnsureKey(subscriptions, vc)
    /\ capacity' = EnsureCap(capacity, vc)
    /\ wk' = [wk EXCEPT ![w] = [IdleWorker EXCEPT !.pc = "adding", !.cmd = "subscribe",
                                                  !.vc = vc, !.tc = tc, !.guild = g]]
    /\ nCmds' = nCmds + 1
    /\ UNCHANGED sysVars
    /\ UNCHANGED <<debVars, menus, last>>

\* The command issued in the guild of the text channel
Subscribe(w, vc, tc) == SubscribeIn(w, vc, tc, GuildOf(tc))

\* addSubscription, lines 1116-1129, and the deferred b.mu.Unlock()
AddFinish(w) ==
    /\ wk[w].pc = "adding"
    /\ LET r == AddSubscription(subscriptions, wk[w].vc, wk[w].tc, wk[w].guild)
       IN  /\ subscriptions' = r.index
           /\ wk' = [wk EXCEPT ![w].pc = "respond", ![w].result = r.existed]
           /\ last' = Recorded("add", w, r.existed)
           /\ IF r.existed
                 THEN UNCHANGED <<capacity, timers>>
              ELSE IF Len(subscriptions[wk[w].vc]) < capacity[wk[w].vc]
                 THEN /\ timers' = AppendInPlace(timers, wk[w].vc,
                                                  Len(subscriptions[wk[w].vc]) + 1,
                                                  Subscription(wk[w].vc, wk[w].tc, wk[w].guild))
                      /\ UNCHANGED capacity
              ELSE /\ timers' = Detach(timers, wk[w].vc)
                   /\ capacity' = [capacity EXCEPT ![wk[w].vc] = GrowCap(@)]
    /\ mu' = Unlock(mu)
    /\ UNCHANGED <<debouncers, debounceMu, debs, menus, nCmds, sysVars>>

\* removeSubscription up to its return: b.mu.Lock() and the body
Remove(w, vc, tc, cmd) ==
    /\ CanLock(mu)
    /\ mu' = Lock(mu, Worker(w))
    /\ LET r == RemoveSubscription(subscriptions, vc, tc)
       IN  /\ subscriptions' = r.index
           /\ wk' = [wk EXCEPT ![w] = [IdleWorker EXCEPT !.pc = "removed", !.cmd = cmd,
                                          !.vc = vc, !.tc = tc, !.result = r.existed]]
           /\ last' = [Recorded("remove", w, r.existed) EXCEPT !.vc = vc, !.tc = tc, !.cmd = cmd]
           /\ IF ~r.existed
                 THEN UNCHANGED <<capacity, timers>>
              ELSE LET moved == ShiftInPlace(timers, vc, First(Positions(subscriptions[vc], vc, tc)),
                                             subscriptions[vc])
                   IN  IF vc \in DOMAIN r.index
                       THEN timers' = moved /\ UNCHANGED capacity
                       ELSE /\ timers' = Detach(moved, vc)
                            /\ capacity' = DeleteKey(capacity, vc)

\* handleUnsubscribe with a voice channel
Unsubscribe(w, vc, tc) ==
    /\ Scheduled
    /\ Dispatched(w)
    /\ nCmds < MaxCmds
    /\ Remove(w, vc, tc, "unsubscribe")
    /\ nCmds' = nCmds + 1
    /\ UNCHANGED sysVars
    /\ UNCHANGED <<debouncers, debounceMu, debs, menus>>

\* the deferred b.mu.Unlock() of removeSubscription
RemoveUnlock(w) ==
    /\ wk[w].pc = "removed"
    /\ mu' = Unlock(mu)
    /\ wk' = [wk EXCEPT ![w].pc = "respond"]
    /\ UNCHANGED <<debVars, subscriptions, capacity, menus, last, nCmds, sysVars>>

\* handleUnsubscribe without a voice channel: handleUnsubscribeWithoutChannel
\* up to the end of its loop under b.mu.RLock()
UnsubscribeNoArg(w, tc) ==
    /\ Scheduled
    /\ Dispatched(w)
    /\ nCmds < MaxCmds
    /\ CanRLock(mu)
    /\ mu' = RLock(mu, Worker(w))
    /\ \E q \in Orders(Matches(subscriptions, tc, GuildOf(tc))) :
          wk' = [wk EXCEPT ![w] = [IdleWorker EXCEPT !.pc = "scanned", !.cmd = "unsubscribe_noarg",
                                                    !.tc = tc, !.matching = q]]
    /\ nCmds' = nCmds + 1
    /\ UNCHANGED sysVars
    /\ UNCHANGED <<debVars, subscriptions, capacity, menus, last>>

\* b.mu.RUnlock() and the choice among no match, one match and several
ScanRUnlock(w) ==
    /\ wk[w].pc = "scanned"
    /\ mu' = RUnlock(mu, Worker(w))
    /\ wk' = [wk EXCEPT ![w].pc = IF Len(wk[w].matching) = 1 THEN "auto" ELSE "respond",
                        ![w].vc = IF Len(wk[w].matching) = 1 THEN wk[w].matching[1] ELSE NoChannel]
    /\ UNCHANGED <<debVars, subscriptions, capacity, menus, last, nCmds, sysVars>>

\* Single subscription - unsubscribe automatically
AutoRemove(w) ==
    /\ Scheduled
    /\ wk[w].pc = "auto"
    /\ Remove(w, wk[w].vc, wk[w].tc, "unsubscribe_auto")
    /\ UNCHANGED <<debouncers, debounceMu, debs, menus, nCmds, sysVars>>

\* handleUnsubscribeChannelSelect: the answer to a select menu
UnsubscribeSelect(w, m, vc) ==
    /\ Scheduled
    /\ Dispatched(w)
    /\ nCmds < MaxCmds
    /\ m \in menus
    /\ \E i \in 1..Len(m.options) : m.options[i] = vc
    /\ Remove(w, vc, m.tc, "unsubscribe_select")
    /\ menus' = menus \ {m}
    /\ nCmds' = nCmds + 1
    /\ UNCHANGED sysVars
    /\ UNCHANGED <<debouncers, debounceMu, debs>>

\* What the handler answers: formatSubscribeResponse, formatUnsubscribeResponse
\* (handleUnsubscribeWithoutChannel passes true for its single match), the
\* "No active subscriptions" text and handleUnsubscribeWithDialog's menu.
Reply(r) ==
    IF r.cmd = "subscribe"
        THEN [text |-> IF r.result THEN "already subscribed" ELSE "subscribed",
              channel |-> r.vc, options |-> <<>>]
    ELSE IF r.cmd = "unsubscribe_auto"
        THEN [text |-> "unsubscribed", channel |-> r.vc, options |-> <<>>]
    ELSE IF r.cmd \in {"unsubscribe", "unsubscribe_select"}
        THEN [text |-> IF r.result THEN "unsubscribed" ELSE "not subscribed",
              channel |-> r.vc, options |-> <<>>]
    ELSE IF Len(r.matching) = 0
        THEN [text |-> "no active subscriptions", channel |-> NoChannel, options |-> <<>>]
    ELSE [text |-> "select", channel |-> NoChannel, options |-> r.matching]

\* s.InteractionRespond(...): the handler answers and returns
Respond(w) ==
    /\ Scheduled
    /\ wk[w].pc = "respond"
    /\ menus' = IF Reply(wk[w]).text = "select"
                THEN menus \cup {[tc |-> wk[w].tc, options |-> Reply(wk[w]).options]}
                ELSE menus
    /\ wk' = [wk EXCEPT ![w] = IdleWorker]
    /\ UNCHANGED <<debVars, subscriptions, capacity, mu, last, nCmds, sysVars>>

\* ------------------------------------------------------------ the start
\* What DEBOUNCE_INTERVAL may hold: nothing, no duration, and durations
EnvValues == {"", "abc", "0s", "-2s", "2s", "5s"}
\* time.ParseDuration on these values, in seconds
Durations == ("0s" :> 0) @@ ("-2s" :> -2) @@ ("2s" :> 2) @@ ("5s" :> 5)
ParseDuration(s) ==
    IF s \in DOMAIN Durations THEN [err |-> FALSE, d |-> Durations[s]]
    ELSE [err |-> TRUE, d |-> 0]

\* debounceInterval := 3 * time.Second; if envInterval != "" { if duration,
\* err := time.ParseDuration(envInterval); err == nil { debounceInterval =
\* duration } else { log.Printf(...) } }
IntervalFrom(envInterval) ==
    IF envInterval # "" /\ ~ParseDuration(envInterval).err
    THEN ParseDuration(envInterval).d
    ELSE DefaultDebounceInterval

\* No bot yet
NotStarted == [pc |-> "new", interval |-> 0, err |-> FALSE, usable |-> FALSE]

\* NewBot(token): the interval and the empty maps
NewBot ==
    /\ boot.pc = "new"
    /\ boot' = [boot EXCEPT !.pc = "created", !.interval = IntervalFrom(environ),
                            !.usable = TRUE]
    /\ UNCHANGED <<idxVars, debVars, wk, nCmds, environ, file, pers, admin>>

\* ------------------------------------------------------------ persistence
\* The fields of the struct subscription, and those that encoding/json writes
\* and reads: the fields whose name begins with an upper-case letter, of which
\* the struct has none
Fields == {"voiceChannelId", "textChannelId", "guildId"}
ExportedFields == {}

\* json.MarshalIndent and json.Unmarshal on one subscription: an object with
\* the exported fields; a field that the object lacks keeps its zero value
MarshalSubscription(sub) == [f \in ExportedFields |-> sub[f]]
UnmarshalSubscription(obj) == [f \in Fields |-> IF f \in DOMAIN obj THEN obj[f] ELSE ""]

\* PersistentData{Subscriptions, AdminChannels}, and the one that Load makes
PersistentData(subs, admins) == [Subscriptions |-> subs, AdminChannels |-> admins]
EmptyData == PersistentData(<<>>, <<>>)

\* json.MarshalIndent(data, "", "  ") and json.Unmarshal(file, data)
Marshal(data) ==
    [subscriptions |->
        [vc \in DOMAIN data.Subscriptions |->
            [i \in 1..Len(data.Subscriptions[vc]) |->
                MarshalSubscription(data.Subscriptions[vc][i])]],
     admin_channels |-> data.AdminChannels]
Unmarshal(json) ==
    PersistentData(
        [vc \in DOMAIN json.subscriptions |->
            [i \in 1..Len(json.subscriptions[vc]) |->
                UnmarshalSubscription(json.subscriptions[vc][i])]],
        json.admin_channels)

\* The file: not there, not to be read (os.ReadFile fails otherwise than by
\* absence), bytes that are no JSON of a PersistentData, or such JSON
NoJSON == [subscriptions |-> <<>>, admin_channels |-> <<>>]
Absent == [kind |-> "absent", json |-> NoJSON]
Unreadable == [kind |-> "unreadable", json |-> NoJSON]
Corrupt == [kind |-> "corrupt", json |-> NoJSON]
Written(json) == [kind |-> "json", json |-> json]

\* What Load returns: (data, nil) or (nil, err)
Loaded(data) == [nil |-> FALSE, data |-> data, err |-> FALSE]
Failed == [nil |-> TRUE, data |-> EmptyData, err |-> TRUE]

\* A Load that returns (nil, nil) when the file cannot be read or decoded
LoadSilent(f) ==
    IF f.kind = "absent" THEN Loaded(EmptyData)
    ELSE IF f.kind = "json" THEN Loaded(Unmarshal(f.json))
    ELSE [Failed EXCEPT !.err = FALSE]

\* A Load without the os.IsNotExist case
LoadStrict(f) ==
    IF f.kind = "json" THEN Loaded(Unmarshal(f.json)) ELSE Failed

\* Load, between p.mu.Lock() and the deferred p.mu.Unlock()
Load(f) ==
    IF f.kind = "absent" THEN Loaded(EmptyData)
    ELSE IF f.kind = "unreadable" THEN Failed
    ELSE IF f.kind = "corrupt" THEN Failed
    ELSE Loaded(Unmarshal(f.json))

\* os.WriteFile(p.filePath, jsonData, 0644): the file holds the data, or the
\* write fails and leaves the file as it was or cut short
WriteFile(f, json) ==
    {[file |-> Written(json), err |-> FALSE],
     [file |-> f, err |-> TRUE],
     [file |-> Corrupt, err |-> TRUE]}

\* No call of Save or Load is running
IdlePers == [mu |-> Free, pc |-> "idle", arg |-> EmptyData, err |-> FALSE,
             result |-> Loaded(EmptyData), saved |-> FALSE]
Caller == [kind |-> "caller", id |-> 0]

\* Load: p.mu.Lock()
LoadLock ==
    /\ boot.pc \in {"created", "up"}
    /\ pers.pc \in {"idle", "saved", "loaded"}
    /\ boot.pc = "created" => pers.pc = "idle"
    /\ pers.mu = Free
    /\ pers' = [pers EXCEPT !.mu = Caller, !.pc = "loading"]
    /\ UNCHANGED <<idxVars, debVars, wk, nCmds, environ, boot, file, admin>>

\* Load: the read, the decoding and the return
LoadReturn ==
    /\ pers.pc = "loading"
    /\ pers' = [pers EXCEPT !.mu = Free, !.pc = "loaded", !.result = Load(file)]
    /\ UNCHANGED <<idxVars, debVars, wk, nCmds, environ, boot, file, admin>>

\* Save(data): p.mu.Lock()
SaveLock(data) ==
    /\ boot.pc = "up"
    /\ pers.pc \in {"idle", "saved", "loaded"}
    /\ pers.mu = Free
    /\ pers' = [pers EXCEPT !.mu = Caller, !.pc = "saving", !.arg = data,
                            !.result = Loaded(EmptyData)]
    /\ UNCHANGED <<idxVars, debVars, wk, nCmds, environ, boot, file, admin>>

\* Save: the encoding, the write and the return
SaveReturn ==
    /\ pers.pc = "saving"
    /\ \E w \in WriteFile(file, Marshal(pers.arg)) :
          /\ file' = w.file
          /\ pers' = [pers EXCEPT !.mu = Free, !.pc = "saved", !.err = w.err,
                                  !.saved = ~w.err]
    /\ UNCHANGED <<idxVars, debVars, wk, nCmds, environ, boot, admin>>

\* The bot that the other specifications start from: started without
\* DEBOUNCE_INTERVAL and without a file
NoAdmin == [channels |-> <<>>, pc |-> "idle", guild |-> "", channel |-> "", accepted |-> FALSE]
DefaultStart ==
    /\ environ = ""
    /\ boot = [pc |-> "up", interval |-> IntervalFrom(""), err |-> FALSE, usable |-> TRUE]
    /\ file = Absent
    /\ pers = IdlePers
    /\ admin = NoAdmin

\* ------------------------------------------------------------ the machine

\* NewBot: empty maps, free locks
Init ==
    /\ subscriptions = <<>>
    /\ capacity = <<>>
    /\ mu = [writer |-> Free, readers |-> {}]
    /\ debouncers = <<>>
    /\ debounceMu = Free
    /\ debs = <<>>
    /\ timers = <<>>
    /\ wk = [w \in Workers |-> IdleWorker]
    /\ menus = {}
    /\ last = [op |-> "none", vc |-> NoChannel, tc |-> NoChannel, cmd |-> "",
               existed |-> FALSE, before |-> <<>>, prev |-> NoCall]
    /\ nCmds = 0
    /\ DefaultStart

\* The steps that leave a critical section
EventRelease ==
    \/ \E w \in Workers : Classify(w)
    \/ \E w \in Workers : DebounceRelease(w)
    \/ \E w \in Workers : DebounceReturn(w)

TimerRelease ==
    \/ \E t \in TimerIds : CallbackUnlock(t)
    \/ \E t \in TimerIds : SendRUnlock(t)
    \/ \E t \in TimerIds : CleanupUnlock(t)

CommandRelease ==
    \/ \E w \in Workers : AddFinish(w)
    \/ \E w \in Workers : RemoveUnlock(w)
    \/ \E w \in Workers : ScanRUnlock(w)

EventStep ==
    \/ \E w \in Workers : \E ev \in VoiceEvents : VoiceStateUpdate(w, ev)
    \/ \E w \in Workers : DebounceLookup(w)
    \/ \E w \in Workers : DebounceSet(w)

TimerStep ==
    \/ Tick
    \/ \E t \in TimerIds : Fire(t)
    \/ \E t \in TimerIds : CallbackRead(t)
    \/ \E t \in TimerIds : SendRLock(t)
    \/ \E t \in TimerIds : CleanupLock(t)

CommandStep ==
    \/ \E w \in Workers : \E vc \in VoiceChannels, tc \in TextChannels : Subscribe(w, vc, tc)
    \/ \E w \in Workers : \E vc \in VoiceChannels, tc \in TextChannels : Unsubscribe(w, vc, tc)
    \/ \E w \in Workers : \E tc \in TextChannels : UnsubscribeNoArg(w, tc)
    \/ \E w \in Workers : AutoRemove(w)
    \/ \E w \in Workers : \E m \in menus, vc \in VoiceChannels : UnsubscribeSelect(w, m, vc)
    \/ \E w \in Workers : Respond(w)

NextDebounce == EventRelease \/ TimerRelease \/ EventStep \/ TimerStep

\* voice events and timers alone: the index stays empty
SpecDebounce == Init /\ [][NextDebounce]_vars

\* Fair scheduling: a handler that has been called goes on, and a timer or
\* callback that can take a step again and again takes it in the end (the
\* scheduler preempts, and a goroutine that waits for a mutex gets it), however
\* many other events arrive.
HandlerProgress == \E w \in Workers : Classify(w)
CallProgress ==
    \/ \E w \in Workers : DebounceLookup(w)
    \/ \E w \in Workers : DebounceRelease(w)
    \/ \E w \in Workers : DebounceSet(w)
    \/ \E w \in Workers : DebounceReturn(w)
TimerProgress == TimerRelease \/ TimerStep

SpecDebounceFair ==
    /\ SpecDebounce
    /\ SF_vars(HandlerProgress)
    /\ SF_vars(CallProgress)
    /\ SF_vars(TimerProgress)

NextIndex == CommandRelease \/ CommandStep

\* commands alone
SpecIndex == Init /\ [][NextIndex]_vars

Next ==
    \/ EventRelease \/ TimerRelease \/ CommandRelease
    \/ EventStep \/ TimerStep \/ CommandStep
    \/ \E t \in TimerIds : \E ok \in BOOLEAN : SendOne(t, ok)

Spec == Init /\ [][Next]_vars

\* One voice channel with up to three text channels subscribed to it, and the
\* joins of one member: the fan-out of a notification while the list changes
FanoutSource == "A"
FanoutTargets == {"t1", "t2", "t3"}
FanoutEvents ==
    {ev \in VoiceEvents :
        ev.member /\ ~ev.bot /\ ev.before = NoState /\ ev.current = FanoutSource}

NextFanout ==
    \/ \E w \in Workers : \E ev \in FanoutEvents : VoiceStateUpdate(w, ev)
    \/ \E w \in Workers : Classify(w)
    \/ \E w \in Workers : DebounceLookup(w)
    \/ \E w \in Workers : DebounceRelease(w)
    \/ \E w \in Workers : DebounceSet(w)
    \/ \E w \in Workers : DebounceReturn(w)
    \/ TimerRelease
    \/ TimerStep
    \/ \E t \in TimerIds : \E ok \in BOOLEAN : SendOne(t, ok)
    \/ \E w \in Workers : \E tc \in FanoutTargets : Subscribe(w, FanoutSource, tc)
    \/ \E w \in Workers : AddFinish(w)
    \/ \E w \in Workers : \E tc \in FanoutTargets : Unsubscribe(w, FanoutSource, tc)
    \/ \E w \in Workers : RemoveUnlock(w)
    \/ \E w \in Workers : \E tc \in FanoutTargets : UnsubscribeNoArg(w, tc)
    \/ \E w \in Workers : ScanRUnlock(w)
    \/ \E w \in Workers : AutoRemove(w)
    \/ \E w \in Workers : Respond(w)

\* The bot after the subscribe commands of the three text channels, in the
\* order t1, t2, t3, have been handled: the third append found the array of
\* two full and took one of four
FanoutList ==
    <<Subscription(FanoutSource, "t1", GuildOf("t1")),
      Subscription(FanoutSource, "t2", GuildOf("t2")),
      Subscription(FanoutSource, "t3", GuildOf("t3"))>>

InitFanout ==
    /\ subscriptions = (FanoutSource :> FanoutList)
    /\ capacity = (FanoutSource :> GrowCap(GrowCap(GrowCap(0))))
    /\ mu = [writer |-> Free, readers |-> {}]
    /\ debouncers = <<>>
    /\ debounceMu = Free
    /\ debs = <<>>
    /\ timers = <<>>
    /\ wk = [w \in Workers |-> IdleWorker]
    /\ menus = {}
    /\ last = [op |-> "add", vc |-> FanoutSource, tc |-> "t3", cmd |-> "subscribe",
               existed |-> FALSE,
               before |-> (FanoutSource :> SubSeq(FanoutList, 1, 2)),
               prev |-> [op |-> "add", vc |-> FanoutSource, tc |-> "t2"]]
    /\ nCmds = Len(FanoutList)
    /\ DefaultStart

SpecFanout == InitFanout /\ [][NextFanout]_vars

\* The call debounceNotification(s, "u1", "A", message) of a join of u1 to A
ResolveCall == Call("u1", FanoutSource, Joined("u1", ChannelName(FanoutSource, TRUE)))

\* The bot after /subscribe of (A, t1), then the join of u1 to A, then
\* /subscribe of (A, t2), all handled: the timer of the join is armed, and was
\* set when t1 alone was in the list; two more commands can run
InitResolve ==
    /\ subscriptions = (FanoutSource :> SubSeq(FanoutList, 1, 2))
    /\ capacity = (FanoutSource :> GrowCap(GrowCap(0)))
    /\ mu = [writer |-> Free, readers |-> {}]
    /\ debouncers = (Key(ResolveCall.user, ResolveCall.chan) :> 1)
    /\ debounceMu = Free
    /\ debs = <<[NewDebouncer(Key(ResolveCall.user, ResolveCall.chan))
                    EXCEPT !.message = ResolveCall.msg, !.timer = 1]>>
    /\ timers = <<[AfterFunc(1, Key(ResolveCall.user, ResolveCall.chan), debounceInterval)
                      EXCEPT !.msg = ResolveCall.msg,
                             !.atEvent = SubSeq(FanoutList, 1, 1)]>>
    /\ wk = [w \in Workers |-> IdleWorker]
    /\ menus = {}
    /\ last = [op |-> "add", vc |-> FanoutSource, tc |-> "t2", cmd |-> "subscribe",
               existed |-> FALSE,
               before |-> (FanoutSource :> SubSeq(FanoutList, 1, 1)),
               prev |-> [op |-> "add", vc |-> FanoutSource, tc |-> "t1"]]
    /\ nCmds = 2
    /\ DefaultStart

\* The callback of the armed timer and the commands on the list, no further
\* voice event
NextResolve ==
    \/ TimerRelease
    \/ TimerStep
    \/ \E t \in TimerIds : \E ok \in BOOLEAN : SendOne(t, ok)
    \/ \E w \in Workers : \E tc \in FanoutTargets : Subscribe(w, FanoutSource, tc)
    \/ \E w \in Workers : AddFinish(w)
    \/ \E w \in Workers : \E tc \in FanoutTargets : Unsubscribe(w, FanoutSource, tc)
    \/ \E w \in Workers : RemoveUnlock(w)
    \/ \E w \in Workers : Respond(w)

SpecResolve == InitResolve /\ [][NextResolve]_vars

\* The subscribe command issued for one text channel id under two guild ids
\* (i.GuildID is passed on as it comes), and the unsubscribe command
GroupIds == {"g1", "g2"}
NextGroups ==
    \/ \E w \in Workers : \E vc \in VoiceChannels, tc \in TextChannels, g \in GroupIds :
            SubscribeIn(w, vc, tc, g)
    \/ \E w \in Workers : AddFinish(w)
    \/ \E w \in Workers : \E vc \in VoiceChannels, tc \in TextChannels : Unsubscribe(w, vc, tc)
    \/ \E w \in Workers : RemoveUnlock(w)
    \/ \E w \in Workers : Respond(w)

SpecGroups == Init /\ [][NextGroups]_vars

\* Fair scheduling of the handlers of commands and of the sends of a callback
\* (a call of the session returns)
CommandProgress ==
    \/ \E w \in Workers : AddFinish(w)
    \/ \E w \in Workers : RemoveUnlock(w)
    \/ \E w \in Workers : ScanRUnlock(w)
    \/ \E w \in Workers : AutoRemove(w)
    \/ \E w \in Workers : Respond(w)
SendProgress == \E t \in TimerIds : \E ok \in BOOLEAN : SendOne(t, ok)

\* A step of a goroutine that is running, or of a timer
Progress ==
    HandlerProgress \/ CallProgress \/ TimerProgress \/ CommandProgress \/ SendProgress

\* The scheduler does not stop for ever while a goroutine can run or a timer
\* can expire.  (Every event of NextFanout makes a call, so the events are
\* bounded and weak fairness of the whole is enough.)
SpecFanoutFair == SpecFanout /\ WF_vars(Progress)

\* The start of the bot with a store, and calls of Save and Load afterwards:
\* a list of one and a list of two text channels, the indexes and the
\* snapshots the calls are made with, and the files the bot may find
TargetLists == {<<"t1">>, <<"t2", "t1">>}
IndexOf(m) ==
    [vc \in DOMAIN m |->
        [i \in 1..Len(m[vc]) |-> Subscription(vc, m[vc][i], GuildOf(m[vc][i]))]]
Indexes == {IndexOf(m) : m \in UNION {[S -> TargetLists] : S \in SUBSET VoiceChannels}}
AdminMaps == {<<>>, ("g1" :> "t1")}
Snapshots == {PersistentData(i, a) : i \in Indexes, a \in AdminMaps}
Files == {Absent, Unreadable, Corrupt} \cup {Written(Marshal(d)) : d \in Snapshots}

\* The start takes what Load returned: the data, or the empty state when Load
\* failed, and goes on
Restore ==
    /\ boot.pc = "created"
    /\ pers.pc = "loaded"
    /\ LET r == pers.result
           data == IF r.err \/ r.nil THEN EmptyData ELSE r.data
       IN  /\ boot' = [boot EXCEPT !.pc = "up", !.err = r.err, !.usable = r.err \/ ~r.nil]
           /\ subscriptions' = data.Subscriptions
           /\ capacity' = [vc \in DOMAIN data.Subscriptions |-> Len(data.Subscriptions[vc])]
           /\ admin' = [admin EXCEPT !.channels = data.AdminChannels]
    /\ pers' = [pers EXCEPT !.pc = "idle"]
    /\ UNCHANGED <<mu, menus, last, debVars, wk, nCmds, environ, file>>

InitStartup ==
    /\ subscriptions = <<>>
    /\ capacity = <<>>
    /\ mu = [writer |-> Free, readers |-> {}]
    /\ debouncers = <<>>
    /\ debounceMu = Free
    /\ debs = <<>>
    /\ timers = <<>>
    /\ wk = [w \in Workers |-> IdleWorker]
    /\ menus = {}
    /\ last = [op |-> "none", vc |-> NoChannel, tc |-> NoChannel, cmd |-> "",
               existed |-> FALSE, before |-> <<>>, prev |-> NoCall]
    /\ nCmds = 0
    /\ environ \in EnvValues
    /\ boot = NotStarted
    /\ file \in Files
    /\ pers = IdlePers
    /\ admin = NoAdmin

NextStartup ==
    \/ NewBot
    \/ LoadLock
    \/ LoadReturn
    \/ Restore
    \/ \E data \in Snapshots : SaveLock(data)
    \/ SaveReturn

SpecStartup == InitStartup /\ [][NextStartup]_vars

\* The goroutines call Save and Load of one handler.  os.WriteFile and
\* os.ReadFile are not atomic: the file is cut and written, and read, piece by
\* piece, here the subscriptions first and the admin channels second.
\* (pers.passed, not read by the program: the data passed to Save so far.)
PassedData ==
    {PersistentData(IndexOf("A" :> <<"t1">>), ("g1" :> "t1")),
     PersistentData(IndexOf("B" :> <<"t2", "t1">>), <<>>)}
NoCallOf == [pc |-> "idle", arg |-> EmptyData, part |-> Absent, result |-> Loaded(EmptyData)]

InitPersist ==
    /\ subscriptions = <<>>
    /\ capacity = <<>>
    /\ mu = [writer |-> Free, readers |-> {}]
    /\ debouncers = <<>>
    /\ debounceMu = Free
    /\ debs = <<>>
    /\ timers = <<>>
    /\ wk = [w \in Workers |-> IdleWorker]
    /\ menus = {}
    /\ last = [op |-> "none", vc |-> NoChannel, tc |-> NoChannel, cmd |-> "",
               existed |-> FALSE, before |-> <<>>, prev |-> NoCall]
    /\ nCmds = 0
    /\ environ = ""
    /\ boot = [pc |-> "up", interval |-> IntervalFrom(""), err |-> FALSE, usable |-> TRUE]
    /\ file = Absent
    /\ pers = [mu |-> Free, calls |-> [c \in Workers |-> NoCallOf], passed |-> {}]
    /\ admin = NoAdmin

\* Save(data) by caller c: p.mu.Lock() and json.MarshalIndent
SaveLockBy(c, data) ==
    /\ pers.calls[c].pc \in {"idle", "loaded"}
    /\ pers.mu = Free
    /\ pers' = [pers EXCEPT !.mu = Worker(c),
                            !.calls[c] = [NoCallOf EXCEPT !.pc = "saving", !.arg = data],
                            !.passed = @ \cup {data}]
    /\ UNCHANGED <<idxVars, debVars, wk, nCmds, environ, boot, file, admin>>

\* os.WriteFile: the file is cut, and the first piece written
SaveWrite(c) ==
    /\ pers.calls[c].pc = "saving"
    /\ file' = [Corrupt EXCEPT !.json.subscriptions = Marshal(pers.calls[c].arg).subscriptions]
    /\ pers' = [pers EXCEPT !.calls[c].pc = "writing"]
    /\ UNCHANGED <<idxVars, debVars, wk, nCmds, environ, boot, admin>>

\* os.WriteFile: the rest is written, or the write fails; Save returns and
\* the deferred p.mu.Unlock() runs
SaveUnlock(c) ==
    /\ pers.calls[c].pc = "writing"
    /\ \E w \in WriteFile(file, Marshal(pers.calls[c].arg)) : file' = w.file
    /\ pers' = [pers EXCEPT !.mu = Free, !.calls[c].pc = "idle"]
    /\ UNCHANGED <<idxVars, debVars, wk, nCmds, environ, boot, admin>>

\* Load by caller c: p.mu.Lock()
LoadLockBy(c) ==
    /\ pers.calls[c].pc \in {"idle", "loaded"}
    /\ pers.mu = Free
    /\ pers' = [pers EXCEPT !.mu = Worker(c),
                            !.calls[c] = [NoCallOf EXCEPT !.pc = "loading"]]
    /\ UNCHANGED <<idxVars, debVars, wk, nCmds, environ, boot, file, admin>>

\* os.ReadFile: the first piece of the file as it is now
LoadRead(c) ==
    /\ pers.calls[c].pc = "loading"
    /\ pers' = [pers EXCEPT !.calls[c].pc = "reading", !.calls[c].part = file]
    /\ UNCHANGED <<idxVars, debVars, wk, nCmds, environ, boot, file, admin>>

\* os.ReadFile: the rest of the file as it is now; json.Unmarshal, the return
\* and the deferred p.mu.Unlock()
LoadUnlock(c) ==
    /\ pers.calls[c].pc = "reading"
    /\ pers' = [pers EXCEPT
                   !.mu = Free,
                   !.calls[c].pc = "loaded",
                   !.calls[c].result =
                       Load([pers.calls[c].part EXCEPT
                                !.json.admin_channels = file.json.admin_channels])]
    /\ UNCHANGED <<idxVars, debVars, wk, nCmds, environ, boot, file, admin>>

NextPersist ==
    \/ \E c \in Workers : \E data \in PassedData : SaveLockBy(c, data)
    \/ \E c \in Workers : SaveWrite(c)
    \/ \E c \in Workers : SaveUnlock(c)
    \/ \E c \in Workers : LoadLockBy(c)
    \/ \E c \in Workers : LoadRead(c)
    \/ \E c \in Workers : LoadUnlock(c)

SpecPersist == InitPersist /\ [][NextPersist]_vars

\* ------------------------------------------------------- admin channels
\* The guilds and the text channels of the requests
Guilds == {"g1", "g2"}
AdminTargets == {"t1", "t2", "t3"}

\* set(groupId, targetId): unconditional overwrite
SetAdmin(channels, g, c) == (g :> c) @@ channels

\* Any channel of a guild that has an admin channel may list
AdmittedAnywhere(channels, g, c) == g \in DOMAIN channels

\* get(groupId), and the gate of ListSubscriptions: the request comes from the
\* channel registered for its guild
Admitted(channels, g, c) == g \in DOMAIN channels /\ channels[g] = c

\* /set-admin-channel in channel c of guild g
SetAdminChannel(g, c) ==
    /\ admin.pc = "idle"
    /\ admin' = [admin EXCEPT !.channels = SetAdmin(@, g, c)]
    /\ UNCHANGED <<idxVars, debVars, wk, nCmds, environ, boot, file, pers>>

\* /list-subscriptions in channel c of guild g: accepted or rejected
ListSubscriptions(g, c) ==
    /\ admin.pc = "idle"
    /\ admin' = [admin EXCEPT !.pc = "answered", !.guild = g, !.channel = c,
                              !.accepted = Admitted(admin.channels, g, c)]
    /\ UNCHANGED <<idxVars, debVars, wk, nCmds, environ, boot, file, pers>>

\* The answer is sent
ListAnswered ==
    /\ admin.pc = "answered"
    /\ admin' = [admin EXCEPT !.pc = "idle", !.guild = "", !.channel = "", !.accepted = FALSE]
    /\ UNCHANGED <<idxVars, debVars, wk, nCmds, environ, boot, file, pers>>

NextAdmin ==
    \/ \E g \in Guilds, c \in AdminTargets : SetAdminChannel(g, c)
    \/ \E g \in Guilds, c \in AdminTargets : ListSubscriptions(g, c)
    \/ ListAnswered

SpecAdmin == Init /\ [][NextAdmin]_vars

\* ============================================================ properties
Max(S) == CHOOSE x \in S : \A y \in S : y <= x
\* The timer the last call of debounceNotification for the key created
Newest(k) == IF TimersOf(k) = {} THEN 0 ELSE Max(TimersOf(k))
\* The timers of the key whose callback has emitted
Emissions(k) == {t \in TimersOf(k) : Emitted(t)}
\* A call for the key that voiceStateUpdate has still to make or is making
PendingCall(k) ==
    \E w \in Workers : \E i \in 1..Len(wk[w].todo) :
        Key(wk[w].todo[i].user, wk[w].todo[i].chan) = k
\* No timer of the key is armed and no callback of the key is running
Settled(k) == \A t \in TimersOf(k) : timers[t].pc \in {"stopped", "done"}
\* The seconds since the timer was created
Elapsed(t) == timers[t].initial - timers[t].remaining

\* Two events for the key and no further one, the second setting the timer
\* while the timer of the first was armed (it had not fired)
Coalesced(k) ==
    /\ Cardinality(TimersOf(k)) = 2
    /\ timers[Newest(k)].found = "reset"
    /\ ~PendingCall(k)

\* C1: two events for a key with messages m1 then m2, the second handled
\* before the timer of the first has fired, and no further event for the key:
\* no emission carries anything but m2, only the second timer emits, and once
\* the key has settled exactly one emission has occurred.
C1_Coalescing ==
    \A k \in Keys : Coalesced(k) =>
        /\ \A t \in Emissions(k) :
              /\ t = Newest(k)
              /\ timers[t].emit = [chan |-> k[2], msg |-> timers[Newest(k)].msg]
        /\ Settled(k) => Cardinality(Emissions(k)) = 1

C1_Witness ==
    \E k \in Keys :
        /\ Coalesced(k)
        /\ Settled(k)
        /\ \E t \in TimersOf(k) : t # Newest(k) /\ timers[t].msg # timers[Newest(k)].msg
        /\ Emissions(k) = {Newest(k)}

\* A timer that is started, not stopped, and whose callback has not completed
\* its emit
Pending(t) == timers[t].pc \in {"armed", "fired", "read", "send", "rlocked", "sending"}

\* C2: in every reachable state each key has at most one pending timer.
C2_OnePendingTimer ==
    \A k \in Keys : Cardinality({t \in TimersOf(k) : Pending(t)}) <= 1

\* C3: after an event that found the key pending (its timer armed, no callback
\* of the key running), no emission for the key occurs until the full interval
\* has elapsed since that event; the timer it stopped stays stopped and never
\* emits.
C3_ResetsClock ==
    [][/\ \A k \in Keys :
            LET n == Newest(k)
            IN  (n # 0 /\ timers[n].found = "reset") =>
                  /\ \A t \in TimersOf(k) \ {n} : timers[t].pc \in {"stopped", "done"}
                  /\ Elapsed(n) < debounceInterval => Emissions(k)' = Emissions(k)
       /\ \A t \in TimerIds :
            timers[t].pc = "stopped" => timers'[t].pc = "stopped" /\ ~Emitted(t)
      ]_vars

C3_Witness ==
    \E k \in Keys :
        /\ Newest(k) # 0
        /\ timers[Newest(k)].found = "reset"
        /\ Emitted(Newest(k))
        /\ \E t \in TimersOf(k) : timers[t].pc = "stopped"

\* C4: the callback of a fired timer reads the message its debouncer holds then
\* (that of the most recent call), emits (channel, that message), and only
\* then deletes the key; when it completes the key is absent, and a call that
\* finds the key absent creates a fresh debouncer.
C4_FireReadsEmitsDeletes ==
    [][/\ \A t \in TimerIds :
            /\ (timers[t].pc = "fired" /\ timers'[t].pc = "read") =>
                  timers'[t].finalMessage = timers[debs[timers[t].deb].timer].msg
            /\ (~Emitted(t) /\ Emitted(t)') =>
                  /\ timers'[t].emit = [chan |-> timers[t].key[2],
                                        msg |-> timers[t].finalMessage]
                  /\ debouncers' = debouncers
            /\ (timers[t].pc # "deleting" /\ timers'[t].pc = "deleting") =>
                  Emitted(t) /\ timers[t].key \notin DOMAIN debouncers'
            /\ (timers[t].pc # "done" /\ timers'[t].pc = "done") =>
                  timers[t].key \notin DOMAIN debouncers'
       /\ \A k \in DOMAIN debouncers \ DOMAIN debouncers' :
            \E t \in TimersOf(k) :
                timers[t].pc # "deleting" /\ timers'[t].pc = "deleting" /\ Emitted(t)
       /\ \A w \in Workers :
            (wk[w].pc = "debounce" /\ wk'[w].pc = "registry") =>
                LET c == Head(wk[w].todo)
                    k == Key(c.user, c.chan)
                    d == wk'[w].deb
                IN  k \notin DOMAIN debouncers =>
                      /\ d = Len(debs) + 1
                      /\ debs'[d] = [key |-> k, message |-> NoMessage, timer |-> 0, mu |-> Free]
                      /\ debouncers'[k] = d
      ]_vars

C4_Witness ==
    \E t \in TimerIds :
        /\ timers[t].pc = "done"
        /\ timers[t].emit = [chan |-> timers[t].key[2], msg |-> timers[t].msg]
        /\ timers[t].key \in DOMAIN debouncers
        /\ debouncers[timers[t].key] # timers[t].deb

\* The subscriptions stored, each with its place in the index
Stored ==
    UNION {{<<vc, i>> : i \in 1..Len(subscriptions[vc])} : vc \in DOMAIN subscriptions}
SubAt(p) == subscriptions[p[1]][p[2]]
\* The text channel is a target of the voice channel in the index
Holds(index, vc, tc) ==
    /\ vc \in DOMAIN index
    /\ \E i \in 1..Len(index[vc]) :
          index[vc][i].voiceChannelId = vc /\ index[vc][i].textChannelId = tc
\* The last call of the index and the one before it, as (op, vc, tc)
LastCall == [op |-> last.op, vc |-> last.vc, tc |-> last.tc]

\* C5: in every reachable state no two stored subscriptions have the same
\* (voice channel, text channel) pair.
C5_Uniqueness ==
    \A p, q \in Stored :
        (/\ SubAt(p).voiceChannelId = SubAt(q).voiceChannelId
         /\ SubAt(p).textChannelId = SubAt(q).textChannelId) => p = q

C5_Witness ==
    /\ last.op = "add"
    /\ last.existed
    /\ Cardinality(Stored) >= 2
    /\ \E w \in Workers : wk[w].pc = "auto"

\* C6: whenever no writer holds the index lock, every key of the index maps
\* to a non-empty list.
C6_NonEmptyLists ==
    mu.writer = Free => \A vc \in DOMAIN subscriptions : Len(subscriptions[vc]) > 0

C6_Witness ==
    /\ mu.writer = Free
    /\ last.op = "remove"
    /\ last.existed
    /\ Len(last.before[last.vc]) = 1
    /\ last.vc \notin DOMAIN subscriptions
    /\ subscriptions # <<>>

\* C7: an add of a pair directly after an add of the same pair returns
\* alreadyExisted = true and leaves the index as the first add left it.
C7_AddIdempotent ==
    (/\ mu.writer = Free
     /\ last.op = "add"
     /\ last.prev = LastCall) =>
        /\ last.existed
        /\ subscriptions = last.before
        /\ Cardinality({p \in Stored : SamePair(SubAt(p), last.vc, last.tc)}) = 1

C7_Witness ==
    /\ mu.writer = Free
    /\ last.op = "add"
    /\ last.prev = LastCall
    /\ last.existed
    /\ Len(subscriptions[last.vc]) = 2

\* C8: a remove of a pair directly after an add of the same pair returns
\* existed = true, the list of the voice channel no longer holds the text
\* channel, and if the subscription was the only one of the voice channel
\* the key is absent.
C8_AddThenRemove ==
    (/\ mu.writer = Free
     /\ last.op = "remove"
     /\ last.prev = [LastCall EXCEPT !.op = "add"]) =>
        /\ last.existed
        /\ \A i \in 1..Len(ListBySource(last.vc)) :
              ListBySource(last.vc)[i].textChannelId # last.tc
        /\ Len(last.before[last.vc]) = 1 => last.vc \notin DOMAIN subscriptions
        /\ Len(last.before[last.vc]) > 1 =>
              Len(subscriptions[last.vc]) = Len(last.before[last.vc]) - 1

C8_Witness ==
    /\ mu.writer = Free
    /\ last.op = "remove"
    /\ last.prev = [LastCall EXCEPT !.op = "add"]
    /\ last.existed
    /\ Len(last.before[last.vc]) = 1
    /\ last.vc \notin DOMAIN subscriptions

\* The voice channels in which the text channel holds a subscription
SourcesOf(index, tc) == {vc \in VoiceChannels : Holds(index, vc, tc)}
\* The list without the subscriptions of the pair
Without(subs, vc, tc) ==
    SelectSeq(subs, LAMBDA sub : ~(sub.voiceChannelId = vc /\ sub.textChannelId = tc))
\* The index without the pair, and without the key if nothing else is left
IndexWithout(index, vc, tc) ==
    [x \in {y \in DOMAIN index : y # vc \/ Without(index[y], vc, tc) # <<>>} |->
        IF x = vc THEN Without(index[x], vc, tc) ELSE index[x]]
\* A handler of unsubscribe without a voice channel
NoArg(w) == wk[w].cmd \in {"unsubscribe_noarg", "unsubscribe_auto"}

\* C9: unsubscribe without a voice channel, when its scan finds the text
\* channel subscribed to exactly one voice channel, goes on to remove that
\* subscription itself: the removal leaves the index without the pair and
\* without the key if the list became empty, and the answer is the
\* confirmation and no select menu.
C9_SingleMatchRemoved ==
    \A w \in Workers :
        /\ (wk[w].pc = "scanned" /\ Cardinality(SourcesOf(subscriptions, wk[w].tc)) = 1) =>
              SourcesOf(subscriptions, wk[w].tc) = {wk[w].matching[1]}
        /\ (wk[w].pc = "auto") =>
              Len(wk[w].matching) = 1 /\ wk[w].vc = wk[w].matching[1]
        /\ (wk[w].pc = "respond" /\ wk[w].cmd = "unsubscribe_noarg") =>
              Len(wk[w].matching) # 1
        /\ (wk[w].pc = "removed" /\ wk[w].cmd = "unsubscribe_auto") =>
              /\ last.cmd = "unsubscribe_auto" /\ last.vc = wk[w].vc /\ last.tc = wk[w].tc
              /\ subscriptions = IndexWithout(last.before, wk[w].vc, wk[w].tc)
              /\ ~Holds(subscriptions, wk[w].vc, wk[w].tc)
              /\ wk[w].result = Holds(last.before, wk[w].vc, wk[w].tc)
        /\ (wk[w].pc = "respond" /\ wk[w].cmd = "unsubscribe_auto") =>
              /\ Reply(wk[w]).text = "unsubscribed"
              /\ Reply(wk[w]).channel = wk[w].vc
              /\ Reply(wk[w]).options = <<>>

C9_Witness ==
    \E w \in Workers :
        /\ wk[w].pc = "respond"
        /\ wk[w].cmd = "unsubscribe_auto"
        /\ wk[w].result
        /\ Len(last.before[wk[w].vc]) = 1
        /\ last.cmd = "unsubscribe_auto"
        /\ wk[w].vc \notin DOMAIN subscriptions

\* What the scan of a handler has collected is the voice channels in which
\* the text channel holds a subscription, each once
ScanExact ==
    \A w \in Workers : wk[w].pc = "scanned" =>
        /\ {wk[w].matching[i] : i \in 1..Len(wk[w].matching)} = SourcesOf(subscriptions, wk[w].tc)
        /\ Len(wk[w].matching) = Cardinality(SourcesOf(subscriptions, wk[w].tc))
\* The answer to no match and to several
ReplyExact ==
    \A w \in Workers : (wk[w].pc = "respond" /\ wk[w].cmd = "unsubscribe_noarg") =>
        /\ Len(wk[w].matching) = 0 =>
              Reply(wk[w]).text = "no active subscriptions" /\ Reply(wk[w]).options = <<>>
        /\ Len(wk[w].matching) >= 2 =>
              Reply(wk[w]).text = "select" /\ Reply(wk[w]).options = wk[w].matching

\* C10: unsubscribe without a voice channel collects exactly the voice
\* channels the text channel is subscribed to; with none it answers that there
\* is nothing to remove and with several it answers with a menu of exactly
\* those, and in both cases no step of the handler changes the index; a menu
\* leads to a change of the index only by a selection, which removes the pair
\* of the menu's text channel and the one voice channel selected.
C10_NoneOrSeveralUnchanged ==
    [][/\ ScanExact /\ ScanExact'
       /\ ReplyExact /\ ReplyExact'
       /\ \A w \in Workers :
            /\ (wk'[w].pc = "scanned" /\ wk[w].pc # "scanned") =>
                  subscriptions' = subscriptions
            /\ (/\ wk[w].cmd = "unsubscribe_noarg"
                /\ Len(wk[w].matching) # 1
                /\ wk'[w] # wk[w]) =>
                  /\ subscriptions' = subscriptions
                  /\ wk[w].pc = "scanned" => wk'[w].pc = "respond"
                  /\ wk[w].pc = "respond" =>
                        menus' = IF Len(wk[w].matching) = 0 THEN menus
                                 ELSE menus \cup {[tc |-> wk[w].tc, options |-> wk[w].matching]}
       /\ \A m \in menus \ menus' :
            /\ last'.cmd = "unsubscribe_select"
            /\ last'.tc = m.tc
            /\ \E i \in 1..Len(m.options) : m.options[i] = last'.vc
            /\ subscriptions' = IndexWithout(subscriptions, last'.vc, m.tc)
      ]_vars

C10_Witness ==
    /\ last.cmd = "unsubscribe_select"
    /\ last.existed
    /\ Cardinality(SourcesOf(last.before, last.tc)) = 2
    /\ Cardinality(SourcesOf(subscriptions, last.tc)) = 1
    /\ menus = {}

\* The name the messages of the event show, and the messages
ShownName(ev) == IF ev.nick = "" THEN ev.user ELSE ev.nick
MessageOf(kind, ev, c) ==
    [kind |-> kind, user |-> ShownName(ev), channel |-> [id |-> c, named |-> ev.named]]
\* An event of a member that is no bot
Human(ev) == ev.member /\ ~ev.bot
\* The handler run by the worker has made n calls of debounceNotification
\* and, of the call it is in, the part that the step completes
LooksUp(w) == wk[w].pc = "debounce" /\ wk'[w].pc = "registry"
Sets(w) == wk[w].pc = "locking" /\ wk'[w].pc = "set"
Returns(w) == wk[w].pc = "set" /\ wk'[w].pc # "set"
\* The step of the worker is the given part of a call with the key and message
CallStep(w, k, m) ==
    /\ LooksUp(w) => k \in DOMAIN debouncers' /\ debouncers'[k] = wk'[w].deb
    /\ Sets(w) =>
          LET d == wk[w].deb
          IN  /\ debs[d].key = k
              /\ debs'[d].message = m
              /\ debs'[d].timer = Len(timers) + 1
              /\ Len(timers') = Len(timers) + 1
              /\ timers'[Len(timers')].key = k
              /\ timers'[Len(timers')].msg = m
              /\ timers'[Len(timers')].pc = "armed"
\* The step of the worker, if it is the step after the call of the handler,
\* goes on to n calls
Begins(w, n) ==
    (wk[w].pc = "event" /\ wk'[w].pc # "event") =>
        IF n = 0 THEN wk'[w] = IdleWorker
        ELSE wk'[w].pc = "debounce" /\ Len(wk'[w].todo) = n

Move(ev) ==
    /\ Human(ev)
    /\ ev.before \in VoiceChannels
    /\ ev.current \in VoiceChannels
    /\ ev.before # ev.current

\* C11: the handler of a move of a non-bot member from channel A to another
\* channel B makes exactly two calls: the first stores a "left" message under
\* the key (user, A) and arms a timer of that key, the second stores a
\* "joined" message under (user, B) and arms a timer of that key.
C11_MoveTwoEntries ==
    [][\A w \in Workers : Move(wk[w].ev) =>
          /\ Begins(w, 2)
          /\ Len(wk[w].todo) = 2 =>
                /\ CallStep(w, Key(wk[w].ev.user, wk[w].ev.before),
                               MessageOf("left", wk[w].ev, wk[w].ev.before))
                /\ Returns(w) => wk'[w].pc = "debounce" /\ Len(wk'[w].todo) = 1
          /\ Len(wk[w].todo) = 1 =>
                /\ CallStep(w, Key(wk[w].ev.user, wk[w].ev.current),
                               MessageOf("joined", wk[w].ev, wk[w].ev.current))
                /\ Returns(w) => wk'[w] = IdleWorker
      ]_vars

C11_Witness ==
    \E w \in Workers :
        /\ Move(wk[w].ev)
        /\ wk[w].pc = "set"
        /\ Len(wk[w].todo) = 1
        /\ Len(debs) = 2
        /\ \E ka, kb \in DOMAIN debouncers :
              /\ ka = Key(wk[w].ev.user, wk[w].ev.before)
              /\ kb = Key(wk[w].ev.user, wk[w].ev.current)
              /\ debs[debouncers[ka]].message.kind = "left"
              /\ debs[debouncers[kb]].message.kind = "joined"
              /\ timers[debs[debouncers[ka]].timer].pc = "armed"
              /\ timers[debs[debouncers[kb]].timer].pc = "armed"

Join(ev) ==
    Human(ev) /\ ev.before \in {NoState, NoChannel} /\ ev.current \in VoiceChannels
Leave(ev) ==
    Human(ev) /\ ev.before \in VoiceChannels /\ ev.current = NoChannel

\* C12: the handler of an event of a non-bot member without a previous
\* channel and with a current one makes exactly one call, which stores a
\* "joined" message under the key of the current channel; with a previous
\* channel and without a current one it makes exactly one call, which stores
\* a "left" message under the key of the previous channel.
C12_JoinOrLeaveOneEntry ==
    [][\A w \in Workers :
          /\ Join(wk[w].ev) =>
                /\ Begins(w, 1)
                /\ CallStep(w, Key(wk[w].ev.user, wk[w].ev.current),
                               MessageOf("joined", wk[w].ev, wk[w].ev.current))
                /\ Returns(w) => wk'[w] = IdleWorker
          /\ Leave(wk[w].ev) =>
                /\ Begins(w, 1)
                /\ CallStep(w, Key(wk[w].ev.user, wk[w].ev.before),
                               MessageOf("left", wk[w].ev, wk[w].ev.before))
                /\ Returns(w) => wk'[w] = IdleWorker
      ]_vars

C12_Witness ==
    \E w, v \in Workers :
        /\ Leave(wk[w].ev)
        /\ wk[w].pc = "set"
        /\ debs[wk[w].deb].message.kind = "left"
        /\ Join(wk[v].ev)
        /\ wk[v].ev.before = NoChannel
        /\ wk[v].pc = "locking"
        /\ debs[wk[v].deb].key[2] = wk[v].ev.current

NoOp(ev) ==
    \/ ev.before \in VoiceChannels /\ ev.current = ev.before
    \/ ev.before \in {NoState, NoChannel} /\ ev.current = NoChannel
\* The handler run by the worker returns in this step without a call, nothing
\* of the debounce engine or of the index changing
ReturnsUnchanged(w) ==
    (wk'[w] # wk[w]) =>
        /\ wk'[w] = IdleWorker
        /\ UNCHANGED <<debouncers, debounceMu, debs, timers, subscriptions>>

\* C13: the handler of an event whose previous and current channel are equal
\* and non-empty, or both empty, returns without a call of
\* debounceNotification: registry, stored messages and timers are unchanged
\* and nothing is left that could lead to an emission.
C13_NoOpEvent ==
    [][\A w \in Workers :
          (wk[w].pc = "event" /\ NoOp(wk[w].ev)) => ReturnsUnchanged(w)]_vars

C13_Witness ==
    \E w \in Workers :
        /\ wk[w].pc = "event"
        /\ Human(wk[w].ev)
        /\ wk[w].ev.before \in VoiceChannels
        /\ wk[w].ev.current = wk[w].ev.before
        /\ Key(wk[w].ev.user, wk[w].ev.current) \in DOMAIN debouncers
        /\ \E t \in TimerIds : timers[t].pc = "armed"

\* C14: the handler of an event of a member flagged as a bot returns without
\* a call of debounceNotification, whatever the channels of the event: no
\* debounce entry is created or changed and nothing is left that could lead
\* to an emission.
C14_BotIgnored ==
    [][\A w \in Workers :
          (wk[w].pc = "event" /\ wk[w].ev.member /\ wk[w].ev.bot) => ReturnsUnchanged(w)]_vars

C14_Witness ==
    \E w \in Workers :
        /\ wk[w].pc = "event"
        /\ wk[w].ev.member
        /\ wk[w].ev.bot
        /\ wk[w].ev.before \in VoiceChannels
        /\ wk[w].ev.current \in VoiceChannels \ {wk[w].ev.before}
        /\ Key(wk[w].ev.user, wk[w].ev.current) \in DOMAIN debouncers

\* sendNotifications has returned in the callback of the timer
FannedOut(t) == timers[t].pc \in {"cleanup", "deleting", "done"}
\* The text channels the callback of the timer has sent to
SentTo(t) == {timers[t].sent[j].to : j \in 1..Len(timers[t].sent)}

\* C15: when the callback of a timer has run sendNotifications, the message
\* it read has been sent to the text channel of every subscription that the
\* list of the voice channel held when the callback read it, one send for
\* each element whether or not a send failed, and the callback deletes the
\* key afterwards.
C15_BestEffortFanout ==
    \A t \in TimerIds :
        /\ FannedOut(t) =>
              /\ Len(timers[t].sent) = Len(timers[t].listed)
              /\ \A i \in 1..Len(timers[t].listed) :
                    timers[t].listed[i].textChannelId \in SentTo(t)
              /\ \A j \in 1..Len(timers[t].sent) :
                    timers[t].sent[j].msg = timers[t].finalMessage
        /\ timers[t].pc = "deleting" => timers[t].key \notin DOMAIN debouncers

\* What the debounce engine holds for a key: its registry entry, the message
\* and timer of each of its debouncers, and the state of each of its timers
\* apart from the time that remains
EntryOf(k) == IF k \in DOMAIN debouncers THEN debouncers[k] ELSE 0
KeyView(k) ==
    [entry |-> EntryOf(k),
     stored |-> [d \in {x \in 1..Len(debs) : debs[x].key = k} |->
                    <<debs[d].message, debs[d].timer>>],
     timers |-> [t \in TimersOf(k) |-> [timers[t] EXCEPT !.remaining = 0]]]
\* The worker is in a call of debounceNotification for the key and takes the step
CallActs(w, k) ==
    /\ wk[w].pc \in {"debounce", "registry", "locking", "set"}
    /\ Key(Head(wk[w].todo).user, Head(wk[w].todo).chan) = k
    /\ wk'[w] # wk[w]
\* The timer expires, or its callback takes the step
TimerActs(t) ==
    /\ timers[t].pc # "stopped"
    /\ timers'[t].pc \notin {timers[t].pc, "stopped"}

\* C16: whatever the debounce engine holds for a key (registry entry, stored
\* message, timer) changes only in a step of a call of debounceNotification
\* for that key or of a timer of that key: an event or a timer fire for one
\* key changes nothing of another key.
C16_Isolation ==
    [][\A k \in Keys :
          (KeyView(k)' # KeyView(k)) =>
              \/ \E w \in Workers : CallActs(w, k)
              \/ \E t \in TimersOf(k) : TimerActs(t)
      ]_vars

C16_Witness ==
    \E k1, k2 \in Keys :
        /\ k1 # k2
        /\ k1 \notin DOMAIN debouncers
        /\ \E t \in TimersOf(k1) : timers[t].pc = "done"
        /\ k2 \in DOMAIN debouncers
        /\ debs[debouncers[k2]].message # NoMessage
        /\ debs[debouncers[k2]].timer # 0
        /\ timers[debs[debouncers[k2]].timer].pc = "armed"

\* C17: under fair scheduling, once the events have stopped, every key that
\* had an event has had an emission that carries the message of its last
\* event, and the registry is empty and stays empty.
C17_EventuallyEmittedAndAbsent ==
    /\ <>[](debouncers = <<>>)
    /\ \A k \in Keys :
          <>[](TimersOf(k) # {} =>
                  /\ k \notin DOMAIN debouncers
                  /\ \E t \in TimersOf(k) :
                        Emitted(t) /\ timers[t].emit.msg = timers[Newest(k)].msg)

C17_Witness ==
    /\ debouncers = <<>>
    /\ \E k \in Keys :
          /\ Cardinality(TimersOf(k)) = 2
          /\ Settled(k)
          /\ \E t \in TimersOf(k) : timers[t].msg # timers[Newest(k)].msg
          /\ Emitted(Newest(k))
          /\ timers[Newest(k)].emit.msg = timers[Newest(k)].msg

\* The calls of sendNotifications that the callbacks of the timers have made
RECURSIVE SumEmits(_)
SumEmits(S) ==
    IF S = {} THEN 0
    ELSE LET t == CHOOSE x \in S : TRUE IN timers[t].emits + SumEmits(S \ {t})
\* Two events for the key and no further one, the second setting the timer
\* when the timer of the first had expired or its callback was running
Raced(k) ==
    /\ Cardinality(TimersOf(k)) = 2
    /\ timers[Newest(k)].found = "raced"
    /\ ~PendingCall(k)

\* C18: when the timer of a key has expired and one more event for the key
\* sets a new timer, no further event following, the key has at most two
\* emissions: that of the new timer, which carries the new message, and at
\* most one more, which carries the old message or the new one.
C18_AtMostOneExtra ==
    \A k \in Keys : Raced(k) =>
        /\ SumEmits(TimersOf(k)) <= 2
        /\ timers[Newest(k)].emits <= 1
        /\ \A t \in Emissions(k) :
              /\ timers[t].emit.chan = k[2]
              /\ timers[t].emit.msg \in {timers[u].msg : u \in TimersOf(k)}
              /\ t = Newest(k) => timers[t].emit.msg = timers[t].msg

C18_Witness ==
    \E k \in Keys :
        /\ Raced(k)
        /\ Settled(k)
        /\ SumEmits(TimersOf(k)) = 2
        /\ \E t \in TimersOf(k) :
              /\ t # Newest(k)
              /\ timers[t].emit.msg = timers[t].msg
              /\ timers[t].msg # timers[Newest(k)].msg

\* The goroutines that hold b.mu, in write or in read mode
IndexHolders == ({mu.writer} \ {Free}) \cup mu.readers
\* Where a goroutine stands between taking b.mu and releasing it
InMemory(p) ==
    IF p.kind = "worker" THEN wk[p.id].pc \in {"adding", "removed", "scanned"}
    ELSE timers[p.id].pc = "rlocked"
\* Where a goroutine's next statement is a call of the session: the lookups
\* of voiceStateUpdate, the answer to an interaction, the send of a message
AtExternalCall(p) ==
    IF p.kind = "worker" THEN wk[p.id].pc \in {"event", "respond"}
    ELSE timers[p.id].pc = "sending"
\* A step in which a call of the session is made
ExternalCall ==
    \/ \E t \in TimerIds : timers'[t].sent # timers[t].sent
    \/ \E w \in Workers : wk[w].pc \in {"event", "respond"} /\ wk'[w] # wk[w]
    \/ menus' # menus /\ \E w \in Workers : wk[w].pc = "respond"

\* C19: b.mu is held, in write or in read mode, for the reading or changing
\* of the index in memory only: the goroutine that holds it stands inside
\* addSubscription, removeSubscription, the scan of the handler of
\* unsubscribe or the read of sendNotifications, never at a call of the
\* session, and the step made while it is held releases it, sends no message,
\* looks up no channel and answers no interaction.
C19_NoExternalCallUnderIndexLock ==
    /\ [](\A p \in IndexHolders : InMemory(p) /\ ~AtExternalCall(p))
    /\ [](\A w \in Workers : AtExternalCall(Worker(w)) => Worker(w) \notin IndexHolders)
    /\ [](\A t \in TimerIds : AtExternalCall(Callback(t)) => Callback(t) \notin IndexHolders)
    /\ [][IndexHolders # {} => IndexHolders' = {} /\ ~ExternalCall]_vars

\* A handler holds b.mu for a removal while a callback is between two sends
\* of its loop
C19_Witness ==
    /\ \E w \in Workers : mu.writer = Worker(w) /\ wk[w].pc = "removed"
    /\ \E t \in TimerIds : timers[t].pc = "sending" /\ Len(timers[t].sent) >= 1

\* The callback of timer t is in b.sendNotifications(s, channelID, finalMessage)
InEmit(t) == timers[t].pc \in {"send", "rlocked", "sending"}
\* The locks of the debounce state that goroutine p holds
\* (0 stands for b.debounceMu, d for the lock of debouncer d)
DebounceLocksOf(p) ==
    (IF debounceMu = p THEN {0} ELSE {}) \cup {d \in 1..Len(debs) : debs[d].mu = p}

\* C20: while the callback of a timer runs the emit it holds neither
\* b.debounceMu nor the lock of its debouncer, and a call of
\* debounceNotification for the same key that has reached deb.mu.Lock() while
\* the emit waits on a send can take the lock, store its message and set a
\* new timer without the send having finished.
C20_EmitOutsideDebounceLocks ==
    /\ \A t \in TimerIds : InEmit(t) => DebounceLocksOf(Callback(t)) = {}
    /\ \A t \in TimerIds : \A w \in Workers :
          /\ timers[t].pc \in {"send", "sending"}
          /\ wk[w].pc = "locking"
          /\ wk[w].deb = timers[t].deb
          /\ Scheduled
          => ENABLED DebounceSet(w)

\* A callback has sent to one subscriber and has more to send to; a call for
\* the same key has just stored its message and set a new timer
C20_Witness ==
    \E t \in TimerIds : \E w \in Workers :
        /\ timers[t].pc = "sending"
        /\ Len(timers[t].sent) >= 1
        /\ wk[w].pc = "set"
        /\ wk[w].deb = timers[t].deb
        /\ debs[wk[w].deb].mu = Worker(w)
        /\ debs[wk[w].deb].timer > t
        /\ timers[debs[wk[w].deb].timer].pc = "armed"
        /\ timers[debs[wk[w].deb].timer].key = timers[t].key
        /\ debs[wk[w].deb].message = timers[debs[wk[w].deb].timer].msg

\* The user and the voice channel that a goroutine inside debounceNotification,
\* or the callback of a timer, works for
TargetOf(p) ==
    IF p.kind = "worker"
    THEN <<Head(wk[p.id].todo).user, Head(wk[p.id].todo).chan>>
    ELSE <<timers[p.id].key[1], timers[p.id].msg.channel.id>>
\* The lock that a goroutine's next statement takes: 0 is b.debounceMu, d the
\* lock of debouncer d
WaitsFor(w) ==
    IF wk[w].pc = "debounce" THEN {0}
    ELSE IF wk[w].pc = "locking" THEN {wk[w].deb}
    ELSE {}
HolderOf(l) == IF l = 0 THEN debounceMu ELSE debs[l].mu

\* C21 as stated: a call of debounceNotification for one key never finds the
\* lock that its next statement takes held for another key.
C21_NeverContend ==
    \A w \in Workers : \A l \in WaitsFor(w) :
        HolderOf(l) # Free => TargetOf(HolderOf(l)) = TargetOf(Worker(w))

\* C21 amended: the lock of a debouncer is only ever held for the key of the
\* call that waits for it; the one lock that calls and callbacks of different
\* keys take in turn is b.debounceMu, held for the lookup, the insertion or
\* the deletion of a key and for nothing else.
C21_PerKeyLocksIndependent ==
    /\ \A w \in Workers : \A l \in WaitsFor(w) \ {0} :
          HolderOf(l) # Free => TargetOf(HolderOf(l)) = TargetOf(Worker(w))
    /\ \A w \in Workers : debounceMu = Worker(w) =>
          /\ wk[w].pc = "registry"
          /\ DebounceLocksOf(Worker(w)) = {0}
    /\ \A t \in TimerIds : debounceMu = Callback(t) =>
          /\ timers[t].pc = "deleting"
          /\ DebounceLocksOf(Callback(t)) = {0}

\* A call for one key is about to lock its debouncer, which is free, while
\* the debouncer of another key is locked by the call that sets its timer
C21_Witness ==
    \E w, v \in Workers :
        /\ wk[w].pc = "locking"
        /\ wk[v].pc = "set"
        /\ TargetOf(Worker(w)) # TargetOf(Worker(v))
        /\ debs[wk[v].deb].mu = Worker(v)
        /\ debs[wk[w].deb].mu = Free

\* The locks a goroutine holds: "index" is b.mu, 0 is b.debounceMu, d the
\* lock of debouncer d
LocksOf(p) == DebounceLocksOf(p) \cup (IF p \in IndexHolders THEN {"index"} ELSE {})
\* No handler is running, no timer is armed, no callback is running
Quiescent ==
    /\ \A w \in Workers : wk[w].pc = "idle"
    /\ \A t \in TimerIds : timers[t].pc \in {"stopped", "done"}
    /\ ~LockHeld
\* The release of the lock that the goroutine holds
ReleaseBy(p) ==
    IF p.kind = "worker"
    THEN \/ DebounceRelease(p.id)
         \/ DebounceReturn(p.id)
         \/ AddFinish(p.id)
         \/ RemoveUnlock(p.id)
         \/ ScanRUnlock(p.id)
    ELSE \/ CallbackUnlock(p.id)
         \/ SendRUnlock(p.id)
         \/ CleanupUnlock(p.id)
Goroutines == {Worker(w) : w \in Workers} \cup {Callback(t) : t \in TimerIds}

\* C22: under every interleaving of commands, events and callbacks no
\* goroutine holds two of the locks (b.mu, b.debounceMu, the lock of a
\* debouncer) at once, the holder of a lock can always release it, some
\* running goroutine or timer can take a step as long as one is left, and
\* under fair scheduling every handler returns and every timer is stopped or
\* has its callback return.
C22_NoDeadlock ==
    /\ [](\A p \in Goroutines : Cardinality(LocksOf(p)) <= 1)
    /\ [](\A p \in Goroutines : LocksOf(p) # {} => ENABLED ReleaseBy(p))
    /\ [](~Quiescent => ENABLED Progress)
    /\ <>[]Quiescent

\* Two handlers and a callback are running at once: a removal holds b.mu, a
\* call of debounceNotification waits for b.debounceMu, and the callback is
\* between two sends
C22_Witness ==
    /\ \E w \in Workers : mu.writer = Worker(w)
    /\ \E w \in Workers : wk[w].pc = "debounce"
    /\ \E t \in TimerIds : timers[t].pc = "sending" /\ Len(timers[t].sent) >= 1

\* C23: the interval that NewBot gives the bot is strictly positive: the
\* default of 3 seconds when DEBOUNCE_INTERVAL is unset, is no duration, or is
\* a duration of zero or less, and the duration it holds otherwise.
C23_PositiveInterval ==
    boot.pc # "new" =>
        /\ boot.interval > 0
        /\ LET r == ParseDuration(environ)
           IN  boot.interval =
                   IF environ # "" /\ ~r.err /\ r.d > 0 THEN r.d
                   ELSE DefaultDebounceInterval

\* C24: when Save(snapshot) has returned without error and Load() is called
\* next, Load returns no error and a snapshot equal to the one saved: the same
\* sources, the same subscriptions (voice channel, text channel and guild of
\* each, in the same order) and the same admin channels.
C24_RoundTrip ==
    pers.pc = "loaded" /\ pers.saved =>
        /\ ~pers.result.err
        /\ ~pers.result.nil
        /\ pers.result.data = pers.arg

\* C25: Load on a store whose file does not exist returns no error and an
\* empty snapshot, without subscriptions and without admin channels.
C25_MissingFileIsEmpty ==
    pers.pc = "loaded" /\ file.kind = "absent" =>
        /\ ~pers.result.err
        /\ ~pers.result.nil
        /\ pers.result.data.Subscriptions = <<>>
        /\ pers.result.data.AdminChannels = <<>>

\* The Load of the start has returned, and there is no file
C25_Witness ==
    /\ boot.pc = "created"
    /\ pers.pc = "loaded"
    /\ file = Absent

\* C26: a Load that fails, because the file cannot be read or cannot be
\* decoded, returns an error and no data; the start then goes on with the
\* empty state, and the bot that is up always has a state it can use.
C26_FailedLoadStartsEmpty ==
    /\ pers.pc = "loaded" /\ file.kind \in {"unreadable", "corrupt"} =>
          pers.result.err /\ pers.result.nil
    /\ boot.pc = "created" /\ pers.pc = "loaded" => ENABLED Restore
    /\ boot.pc = "up" => boot.usable
    /\ boot.pc = "up" /\ boot.err =>
          /\ subscriptions = <<>>
          /\ admin.channels = <<>>

\* The bot is up after a Load that failed on a file that is no JSON
C26_Witness ==
    /\ boot.pc = "up"
    /\ boot.err
    /\ file = Corrupt
    /\ pers.pc = "idle"

\* The last call of addSubscription or removeSubscription changed the index
Mutated ==
    \/ last.op = "add" /\ ~last.existed
    \/ last.op = "remove" /\ last.existed
\* The file holds the index and the admin channels as Save writes them
FileReflectsState ==
    file = Written(Marshal(PersistentData(subscriptions, admin.channels)))

\* C27: an add that inserts a subscription and a remove that deletes one
\* schedule a write of the snapshot: once the handlers have answered and no
\* call of Save is left running, the file holds the index after the change.
C27_MutationsAreSaved ==
    /\ Mutated
    /\ \A w \in Workers : wk[w].pc = "idle"
    /\ pers.pc # "saving"
    => FileReflectsState

\* C28: a request to list the subscriptions is accepted only when it comes
\* from the text channel registered as the admin channel of its guild; it is
\* rejected when the guild has no admin channel and when its channel is
\* another than the registered one.
C28_ListOnlyFromAdminChannel ==
    [][admin.pc = "idle" /\ admin'.pc = "answered" =>
          /\ admin'.channels = admin.channels
          /\ admin'.accepted <=>
                /\ admin'.guild \in DOMAIN admin.channels
                /\ admin.channels[admin'.guild] = admin'.channel
          /\ admin'.guild \notin DOMAIN admin.channels => ~admin'.accepted]_vars

\* A request from a channel of a guild whose admin channel is another one has
\* been rejected
C28_Witness ==
    /\ admin.pc = "answered"
    /\ ~admin.accepted
    /\ admin.guild \in DOMAIN admin.channels
    /\ admin.channels[admin.guild] # admin.channel
    /\ \E g \in Guilds : g \notin DOMAIN admin.channels

\* C29: the list that sendNotifications read under the read lock is a
\* snapshot: whatever subscribe or unsubscribe runs on the voice channel while
\* the loop goes on, the sends go, in order, to the text channels of the list
\* as it was read, to each of them once and to no other.
C29_SnapshotFanout ==
    \A t \in TimerIds :
        /\ Len(timers[t].sent) <= Len(timers[t].listed)
        /\ \A j \in 1..Len(timers[t].sent) :
              /\ j <= Len(timers[t].listed)
                    => timers[t].sent[j].to = timers[t].listed[j].textChannelId
              /\ \A i \in 1..Len(timers[t].sent) :
                    timers[t].sent[i].to = timers[t].sent[j].to => i = j
        /\ FannedOut(t) => Len(timers[t].sent) = Len(timers[t].listed)

\* The text channels of a list
ChannelsOf(list) == {list[i].textChannelId : i \in 1..Len(list)}

\* C30: targets are resolved at fire time, not at event time: when the fan-out
\* of a timer is over, every text channel that was subscribed to the voice
\* channel after the voice event and was in the index when the callback read
\* it has been sent the message, and no text channel that was in the index at
\* the voice event and no longer when the callback read it has been sent it
C30_ResolvedAtFire ==
    \A t \in TimerIds :
        FannedOut(t) =>
            /\ (ChannelsOf(timers[t].listed) \ ChannelsOf(timers[t].atEvent)) \subseteq SentTo(t)
            /\ (ChannelsOf(timers[t].atEvent) \ ChannelsOf(timers[t].listed)) \cap SentTo(t) = {}

\* The list of the voice channel in an index, empty for a missing key
ListIn(index, vc) == IF vc \in DOMAIN index THEN index[vc] ELSE <<>>

\* C31: the list of a voice channel keeps insertion order: after an add that
\* inserted, the list is the list of before with the new subscription at its
\* end; after a remove that removed, the list is the list of before without
\* the subscription, the others in the order they had.
C31_InsertionOrder ==
    /\ (last.op = "add" /\ ~last.existed) =>
          ListBySource(last.vc)
             = Append(ListIn(last.before, last.vc),
                      Subscription(last.vc, last.tc, GuildOf(last.tc)))
    /\ (last.op = "remove" /\ last.existed) =>
          /\ Len(ListBySource(last.vc)) = Len(last.before[last.vc]) - 1
          /\ \A i, j \in 1..Len(last.before[last.vc]) :
                (/\ i < j
                 /\ last.before[last.vc][i].textChannelId # last.tc
                 /\ last.before[last.vc][j].textChannelId # last.tc) =>
                    \E m, n \in 1..Len(ListBySource(last.vc)) :
                        /\ m < n
                        /\ ListBySource(last.vc)[m] = last.before[last.vc][i]
                        /\ ListBySource(last.vc)[n] = last.before[last.vc][j]

\* The first of three subscriptions has been removed, directly after the add
\* that put the third at the end
C31_Witness ==
    /\ last.op = "remove"
    /\ last.existed
    /\ last.prev.op = "add"
    /\ Len(last.before[last.vc]) = 3
    /\ last.before[last.vc][1].textChannelId = last.tc
    /\ last.before[last.vc][3].textChannelId = last.prev.tc
    /\ Len(ListBySource(last.vc)) = 2

\* The subscriptions of a list
ElementsOf(list) == {list[i] : i \in 1..Len(list)}

\* C32: a remove of (s, t) changes nothing but the matching subscription: it
\* returns whether the pair was there; if it was not, the index is as before;
\* if it was, the lists of the other voice channels are as before and the
\* list of s holds the subscriptions it held other than that of t, each once
\* (read when the remove has returned and no writer is in the index).
C32_RemoveFrame ==
    (mu.writer = Free /\ last.op = "remove") =>
        /\ last.existed = Holds(last.before, last.vc, last.tc)
        /\ ~last.existed => subscriptions = last.before
        /\ last.existed =>
              /\ DOMAIN subscriptions \subseteq DOMAIN last.before
              /\ \A x \in DOMAIN last.before \ {last.vc} :
                    x \in DOMAIN subscriptions /\ subscriptions[x] = last.before[x]
              /\ ElementsOf(ListBySource(last.vc))
                    = {sub \in ElementsOf(last.before[last.vc]) : sub.textChannelId # last.tc}
              /\ Len(ListBySource(last.vc)) = Len(last.before[last.vc]) - 1

\* One of two subscriptions of a voice channel has been removed while another
\* voice channel has a list
C32_Witness ==
    /\ mu.writer = Free
    /\ last.op = "remove"
    /\ last.existed
    /\ Len(last.before[last.vc]) = 2
    /\ Len(ListBySource(last.vc)) = 1
    /\ \E x \in DOMAIN subscriptions : x # last.vc

\* The subscriptions of the pair in the list of the voice channel, whatever
\* their guild
OfPair(index, vc, tc) ==
    {sub \in ElementsOf(ListIn(index, vc)) : sub.voiceChannelId = vc /\ sub.textChannelId = tc}

\* C33: the duplicate check ignores the guild: an add of (s, t, g2) that finds
\* a subscription (s, t, g1) with another guild returns alreadyExisted = true
\* and leaves the index, and so the stored subscription and its guild g1, as
\* they are.
C33_DuplicateIgnoresGroup ==
    [][\A w \in Workers :
          (/\ wk[w].pc = "adding"
           /\ wk'[w].pc = "respond"
           /\ \E sub \in OfPair(subscriptions, wk[w].vc, wk[w].tc) : sub.guildId # wk[w].guild) =>
              /\ wk'[w].result
              /\ subscriptions' = subscriptions
              /\ Reply(wk'[w]).text = "already subscribed"]_vars

\* An add under g2 has returned true, and the pair is stored once, under g1
C33_Witness ==
    \E w \in Workers :
        /\ wk[w].pc = "respond"
        /\ wk[w].cmd = "subscribe"
        /\ wk[w].result
        /\ wk[w].guild = "g2"
        /\ OfPair(subscriptions, wk[w].vc, wk[w].tc)
              = {Subscription(wk[w].vc, wk[w].tc, "g1")}
        /\ last.op = "add" /\ last.vc = wk[w].vc /\ last.tc = wk[w].tc

\* The handlers that have run addSubscription for the pair and not answered yet
Subscribers(vc, tc) ==
    {w \in Workers : /\ wk[w].cmd = "subscribe" /\ wk[w].pc = "respond"
                     /\ wk[w].vc = vc /\ wk[w].tc = tc}

\* C34: when the subscribe commands of a run are all for the same pair, on an
\* index that started without it, and all are in flight together, their calls
\* of addSubscription done and none answered yet, then exactly one of them has
\* got alreadyExisted = false and answers with a new subscription, every
\* other one answers that it already existed, and the pair is stored once.
C34_OneSubscriberWins ==
    \A vc \in VoiceChannels, tc \in TextChannels :
        (Subscribers(vc, tc) = Workers /\ nCmds = Cardinality(Workers)) =>
            /\ Cardinality({w \in Workers : ~wk[w].result}) = 1
            /\ \A w \in Workers :
                  Reply(wk[w]).text = IF wk[w].result THEN "already subscribed" ELSE "subscribed"
            /\ subscriptions = (vc :> <<Subscription(vc, tc, GuildOf(tc))>>)

\* Both handlers have come back from addSubscription for the same pair, the
\* one that took the lock second with true
C34_Witness ==
    /\ nCmds = Cardinality(Workers)
    /\ \E vc \in VoiceChannels, tc \in TextChannels :
          /\ Subscribers(vc, tc) = Workers
          /\ Holds(subscriptions, vc, tc)
    /\ \E w \in Workers : wk[w].result
    /\ last.existed

\* Two events for the key and no further one, the call of the second having
\* found the key absent with the callback of the first timer over
Separated(k) ==
    /\ Cardinality(TimersOf(k)) = 2
    /\ timers[Newest(k)].found = "fresh"
    /\ ~PendingCall(k)

\* C35: two events for a key separated by a full firing (the second comes
\* when the callback of the first timer is over and the key is absent) are
\* not coalesced: the first timer has emitted the message of the first event,
\* and once the key has settled the second timer has emitted the message of
\* the second, so that there are two emissions, one for each event.
C35_SeparatedEventsBothEmit ==
    \A k \in Keys :
        Separated(k) =>
            /\ \A t \in TimersOf(k) \ {Newest(k)} :
                  /\ timers[t].pc = "done"
                  /\ timers[t].emits = 1
                  /\ timers[t].emit = [chan |-> k[2], msg |-> timers[t].msg]
            /\ Emitted(Newest(k)) =>
                  timers[Newest(k)].emit = [chan |-> k[2], msg |-> timers[Newest(k)].msg]
            /\ Settled(k) =>
                  /\ Emissions(k) = TimersOf(k)
                  /\ timers[Newest(k)].emits = 1

\* Both timers of a key have run to their end, the second set for an event
\* that came after the first callback, with another message
C35_Witness ==
    \E k \in Keys :
        /\ Separated(k)
        /\ Settled(k)
        /\ Cardinality(Emissions(k)) = 2
        /\ \E t \in TimersOf(k) \ {Newest(k)} :
              /\ timers[t].msg # timers[Newest(k)].msg
              /\ timers[t].emit.msg # timers[Newest(k)].emit.msg
        /\ k \notin DOMAIN debouncers

\* C36: whenever the handler of unsubscribe without a voice channel is about
\* to answer that the text channel was unsubscribed from a voice channel, its
\* own call of removeSubscription for that voice channel has returned true: it
\* removed a subscription of the text channel itself.
C36_AnswerMeansRemoved ==
    \A w \in Workers :
        (/\ wk[w].pc = "respond"
         /\ NoArg(w)
         /\ Reply(wk[w]).text = "unsubscribed") =>
            wk[w].result

\* C37: whenever a timer is armed for a key, the registry holds an entry for
\* the key, the entry is the debouncer the timer's callback closes over, and
\* the timer is that debouncer's timer: no callback has deleted the entry of a
\* timer that has still to fire, or the entry of another debouncer.
C37_PendingTimerIsRegistered ==
    \A t \in TimerIds :
        timers[t].pc = "armed" =>
            /\ timers[t].key \in DOMAIN debouncers
            /\ debouncers[timers[t].key] = timers[t].deb
            /\ debs[timers[t].deb].timer = t

\* The callers that are between p.mu.Lock() and p.mu.Unlock()
InsidePersistence == {c \in Workers : pers.calls[c].pc \in {"saving", "writing", "loading", "reading"}}

\* C38: Save and Load of one handler exclude each other: at most one caller is
\* between Lock and Unlock; outside a Save the file, when it holds JSON, holds
\* what one Save wrote, whole; and a Load that returns data returns a snapshot
\* that was passed to some Save, or the empty one of the start.
C38_SaveLoadExclusive ==
    /\ Cardinality(InsidePersistence) <= 1
    /\ file.kind = "json" => \E d \in pers.passed : file.json = Marshal(d)
    /\ \A c \in Workers :
          (pers.calls[c].pc = "loaded" /\ ~pers.calls[c].result.err) =>
              pers.calls[c].result.data \in pers.passed \cup {EmptyData}

\* ------------------------------------------- first variant of bot.go
\* The first variant carries the list code inside its handlers; each handler
\* is the function from the index it finds to the index it leaves and the
\* text it answers.

\* handleSubscribe, lines 189-210 and 219-222 (handleChannelSelect carries
\* the same statements): the nil check, the search for the pair, the append
InlineSubscribe(index, vc, tc, g) ==
    LET ensured == [x \in DOMAIN index \cup {vc} |-> IF x \in DOMAIN index THEN index[x] ELSE <<>>]
        alreadySubscribed ==
            \E i \in 1..Len(ensured[vc]) :
                ensured[vc][i].textChannelId = tc /\ ensured[vc][i].voiceChannelId = vc
    IN  [index |-> IF alreadySubscribed
                   THEN ensured
                   ELSE [ensured EXCEPT ![vc] =
                            Append(@, [voiceChannelId |-> vc, textChannelId |-> tc, guildId |-> g])],
         text |-> IF alreadySubscribed THEN "already subscribed" ELSE "subscribed"]

\* handleUnsubscribe, lines 371-386 and 395-398 (handleUnsubscribeChannelSelect
\* carries the same statements): the first entry of the pair is cut out, and
\* an existing list that is empty afterwards is deleted, found or not
InlineUnsubscribe(index, vc, tc) ==
    IF vc \notin DOMAIN index
    THEN [index |-> index, text |-> "not subscribed"]
    ELSE LET subs == index[vc]
             hits == {i \in 1..Len(subs) :
                         subs[i].textChannelId = tc /\ subs[i].voiceChannelId = vc}
             idx == CHOOSE i \in hits : \A j \in hits : i <= j
             list == IF hits = {} THEN subs
                     ELSE SubSeq(subs, 1, idx - 1) \o SubSeq(subs, idx + 1, Len(subs))
         IN  [index |-> IF Len(list) = 0
                        THEN [x \in DOMAIN index \ {vc} |-> index[x]]
                        ELSE [index EXCEPT ![vc] = list],
              text |-> IF hits # {} THEN "unsubscribed" ELSE "not subscribed"]

\* handleUnsubscribeWithoutChannel, lines 411-420: the scan under b.mu.RLock()
InlineMatches(index, tc, g) ==
    {vc \in DOMAIN index :
        \E i \in 1..Len(index[vc]) :
            index[vc][i].textChannelId = tc /\ index[vc][i].guildId = g}

\* handleUnsubscribeWithoutChannel, lines 433-458: the single match is cut out
\* by its text channel alone, and the answer is "Unsubscribed" whatever the
\* loop found
InlineAutoUnsubscribe(index, vc, tc) ==
    IF vc \notin DOMAIN index
    THEN [index |-> index, text |-> "unsubscribed"]
    ELSE LET subs == index[vc]
             hits == {i \in 1..Len(subs) : subs[i].textChannelId = tc}
             idx == CHOOSE i \in hits : \A j \in hits : i <= j
             list == IF hits = {} THEN subs
                     ELSE SubSeq(subs, 1, idx - 1) \o SubSeq(subs, idx + 1, Len(subs))
         IN  [index |-> IF Len(list) = 0
                        THEN [x \in DOMAIN index \ {vc} |-> index[x]]
                        ELSE [index EXCEPT ![vc] = list],
              text |-> "unsubscribed"]

\* A handler enters the step named pc
Enters(w, pc) == wk[w].pc # pc /\ wk'[w].pc = pc

\* C39: the helper-based handlers and the inline handlers are equivalent.
\* Every step of a helper-based handler, from whatever index the commands
\* before it have left, leaves the index and gives the answer that the inline
\* handler of the same command leaves and gives from that index: the subscribe
\* (where the helper's nil check alone changes nothing of what the inline
\* handler would do), the unsubscribe and the menu selection, the scan of the
\* unsubscribe without a source, and its automatic removal of a single match.
\* By induction the two variants agree after every sequence of commands.
C39_HelperStepIsInlineStep ==
    [][\A w \in Workers :
          /\ Enters(w, "adding") =>
                InlineSubscribe(subscriptions', wk'[w].vc, wk'[w].tc, wk'[w].guild)
                    = InlineSubscribe(subscriptions, wk'[w].vc, wk'[w].tc, wk'[w].guild)
          /\ (wk[w].pc = "adding" /\ wk'[w].pc = "respond") =>
                LET r == InlineSubscribe(subscriptions, wk[w].vc, wk[w].tc, wk[w].guild)
                IN  subscriptions' = r.index /\ Reply(wk'[w]).text = r.text
          /\ (Enters(w, "removed") /\ wk'[w].cmd \in {"unsubscribe", "unsubscribe_select"}) =>
                LET r == InlineUnsubscribe(subscriptions, wk'[w].vc, wk'[w].tc)
                IN  subscriptions' = r.index /\ Reply(wk'[w]).text = r.text
          /\ Enters(w, "scanned") =>
                /\ ElementsOf(wk'[w].matching)
                       = InlineMatches(subscriptions, wk'[w].tc, GuildOf(wk'[w].tc))
                /\ Len(wk'[w].matching) = Cardinality(ElementsOf(wk'[w].matching))
                /\ subscriptions' = subscriptions
          /\ (Enters(w, "removed") /\ wk'[w].cmd = "unsubscribe_auto") =>
                LET r == InlineAutoUnsubscribe(subscriptions, wk'[w].vc, wk'[w].tc)
                IN  subscriptions' = r.index /\ Reply(wk'[w]).text = r.text
      ]_vars

\* An unsubscribe without a source has removed its single match and emptied
\* that list while another voice channel keeps a subscription
C39_Witness ==
    \E w \in Workers :
        /\ wk[w].pc = "removed"
        /\ wk[w].cmd = "unsubscribe_auto"
        /\ wk[w].result
        /\ wk[w].vc \notin DOMAIN subscriptions
        /\ DOMAIN subscriptions # {}

====
